---------------------------- MODULE Spec2Model ----------------------------
(***************************************************************************)
(* A model of QRCrypt (vblimits/QRCrypt): password-based encryption of a   *)
(* secret into a JSON envelope (src/src/crypto.rs), Shamir secret sharing  *)
(* over GF(256) (src/src/shamir.rs), the typed QR payload and its parsers  *)
(* (src/src/qr.rs) and the command handlers that route a payload           *)
(* (src/src/main.rs, src/src/utils.rs).                                    *)
(*                                                                         *)
(* The program keeps no state between invocations.  The state modelled is  *)
(* the artifact at hand (an envelope, a share list, a payload), how it was *)
(* produced, and the last operation applied with its inputs and result.    *)
(*                                                                         *)
(* Byte strings are sequences of 0..255.  Text that the code treats as     *)
(* base64 is a sequence of character codes: 0..63 the alphabet, 64 the     *)
(* padding character, anything above a character outside the alphabet.     *)
(***************************************************************************)
EXTENDS Integers, Sequences, FiniteSets, TLC

VARIABLES
    artifact,    \* the artifact at hand
    provenance,  \* how the artifact was produced (inputs of the producing call)
    call,        \* the last operation applied and its inputs
    result       \* what that operation returned

vars == <<artifact, provenance, call, result>>

None == [kind |-> "None"]

(***************************************************************************)
(* Results.  Ok(v) and Err(kind, msg) stand for Result<T, QRCryptError>;   *)
(* kind is the variant of QRCryptError, msg the text the variant carries   *)
(* (without the formatted detail).                                         *)
(***************************************************************************)
Ok(v) == [ok |-> TRUE, val |-> v]

Err(k, m) == [ok |-> FALSE, kind |-> k, msg |-> m]

QRCryptErrorKinds ==
    {"Encryption", "Decryption", "QRGeneration", "QRParsing", "ShamirError",
     "InvalidInput", "Io", "Serialization", "Base64Decode", "HexDecode"}

(***************************************************************************)
(* Bounds of the model.                                                    *)
(***************************************************************************)
MaxPlainLen == 2

\* Bytes plaintexts are drawn from: 'A', and the two bytes of U+00E9.
PlainBytes == {65, 195, 169}

\* Passwords, as UTF-8 byte strings (the empty password included).
Passwords == {<<>>, <<112>>, <<113>>}

(***************************************************************************)
(* Sequences.                                                              *)
(***************************************************************************)
Min(a, b) == IF a < b THEN a ELSE b

SeqsUpTo(S, n) == UNION {[1..k -> S] : k \in 0..n}

\* The least j in lo..hi with P[j]; P maps lo..hi to booleans and holds somewhere.
Least(lo, hi, P) == CHOOSE j \in lo..hi : P[j] /\ \A k \in lo..(j - 1) : ~P[k]

RECURSIVE SumSeq(_)
SumSeq(s) == IF s = <<>> THEN 0 ELSE s[1] + SumSeq(Tail(s))

PadTo(s, n) == [i \in 1..n |-> IF i <= Len(s) THEN s[i] ELSE 0]

(***************************************************************************)
(* String::from_utf8: well-formed UTF-8 (RFC 3629 table).                  *)
(***************************************************************************)
IsCont(b) == b >= 128 /\ b <= 191

RECURSIVE Utf8Valid(_)
Utf8Valid(s) ==
    IF s = <<>> THEN TRUE
    ELSE LET b == s[1]
             n == Len(s)
         IN  IF b <= 127 THEN Utf8Valid(Tail(s))
             ELSE IF b >= 194 /\ b <= 223
                  THEN n >= 2 /\ IsCont(s[2]) /\ Utf8Valid(SubSeq(s, 3, n))
             ELSE IF b >= 224 /\ b <= 239
                  THEN /\ n >= 3
                       /\ IsCont(s[2]) /\ IsCont(s[3])
                       /\ (b = 224 => s[2] >= 160)
                       /\ (b = 237 => s[2] <= 159)
                       /\ Utf8Valid(SubSeq(s, 4, n))
             ELSE IF b >= 240 /\ b <= 244
                  THEN /\ n >= 4
                       /\ IsCont(s[2]) /\ IsCont(s[3]) /\ IsCont(s[4])
                       /\ (b = 240 => s[2] >= 144)
                       /\ (b = 244 => s[2] <= 143)
                       /\ Utf8Valid(SubSeq(s, 5, n))
             ELSE FALSE

\* The strings (&str, String) of at most n bytes over the bytes B.
Strings(B, n) == {s \in SeqsUpTo(B, n) : Utf8Valid(s)}

(***************************************************************************)
(* base64::engine::general_purpose::STANDARD: the standard alphabet with   *)
(* padding.  The encoder always pads; the decoder requires canonical       *)
(* padding and zero trailing bits.                                         *)
(***************************************************************************)
B64PadChar == 64

RECURSIVE B64Encode(_)
B64Encode(b) ==
    LET n == Len(b) IN
    IF n = 0 THEN <<>>
    ELSE IF n = 1
         THEN <<b[1] \div 4, (b[1] % 4) * 16, B64PadChar, B64PadChar>>
    ELSE IF n = 2
         THEN <<b[1] \div 4, (b[1] % 4) * 16 + b[2] \div 16,
                (b[2] % 16) * 4, B64PadChar>>
    ELSE <<b[1] \div 4, (b[1] % 4) * 16 + b[2] \div 16,
           (b[2] % 16) * 4 + b[3] \div 64, b[3] % 64>>
         \o B64Encode(SubSeq(b, 4, n))

\* The bytes of one full group of four alphabet characters.
B64Group(c) ==
    <<c[1] * 4 + c[2] \div 16,
      (c[2] % 16) * 16 + c[3] \div 4,
      (c[3] % 4) * 64 + c[4]>>

IsB64Char(c) == c >= 0 /\ c <= 63

RECURSIVE B64DecodeGroups(_)
B64DecodeGroups(s) ==
    IF s = <<>> THEN <<>>
    ELSE B64Group(SubSeq(s, 1, 4)) \o B64DecodeGroups(SubSeq(s, 5, Len(s)))

B64Decode(s) ==
    LET n == Len(s) IN
    IF n % 4 # 0 THEN Err("Base64Decode", "invalid length or padding")
    ELSE IF n = 0 THEN Ok(<<>>)
    ELSE LET body == SubSeq(s, 1, n - 4)
             last == SubSeq(s, n - 3, n)
         IN  IF \E i \in 1..(n - 4) : ~IsB64Char(body[i])
             THEN Err("Base64Decode", "invalid symbol")
             ELSE IF \A i \in 1..4 : IsB64Char(last[i])
                  THEN Ok(B64DecodeGroups(s))
             ELSE IF /\ IsB64Char(last[1]) /\ IsB64Char(last[2])
                     /\ IsB64Char(last[3]) /\ last[4] = B64PadChar
                  THEN IF last[3] % 4 # 0
                       THEN Err("Base64Decode", "invalid last symbol")
                       ELSE Ok(B64DecodeGroups(body)
                               \o SubSeq(B64Group(<<last[1], last[2], last[3], 0>>), 1, 2))
             ELSE IF /\ IsB64Char(last[1]) /\ IsB64Char(last[2])
                     /\ last[3] = B64PadChar /\ last[4] = B64PadChar
                  THEN IF last[2] % 16 # 0
                       THEN Err("Base64Decode", "invalid last symbol")
                       ELSE Ok(B64DecodeGroups(body)
                               \o SubSeq(B64Group(<<last[1], last[2], 0, 0>>), 1, 1))
             ELSE Err("Base64Decode", "invalid symbol")


\* A mis-chosen engine: the decoder of an unpadded engine refuses padding.
B64DecodeNoPad(s) ==
    IF \E i \in 1..Len(s) : s[i] = B64PadChar
    THEN Err("Base64Decode", "invalid padding")
    ELSE B64Decode(s)

\* general_purpose::STANDARD.decode as the code calls it.
StandardDecode(s) == B64Decode(s)

(***************************************************************************)
(* Option<T>.                                                              *)
(***************************************************************************)
Some(v) == [kind |-> "Some", val |-> v]

(***************************************************************************)
(* The external primitives of crypto.rs.  Argon2 and AES-256-GCM are       *)
(* library code; they are stood in for by byte-level functions that keep   *)
(* what the code relies on: key derivation is deterministic and, for one   *)
(* salt, different passwords give different keys; decryption inverts       *)
(* encryption under the same key and nonce; the tag is computed over key,  *)
(* nonce and ciphertext, and verification fails under another key.         *)
(***************************************************************************)
NONCE_SIZE == 12

KEY_SIZE == 32

TAG_SIZE == 16

\* Argon2::default(): output length of the hash, and the shortest salt it takes.
ARGON2_OUTPUT_LEN == 32

ARGON2_MIN_SALT_LEN == 8

\* password_hash::Salt: bounds on the length of a salt string.
SALT_MIN_LEN == 4

SALT_MAX_LEN == 64

\* SaltString::generate: 16 random bytes, 22 characters.
SALT_GEN_LEN == 22

HalfKey == 16

\* SaltString::from_b64
SaltFromB64(s) ==
    IF Len(s) < SALT_MIN_LEN \/ Len(s) > SALT_MAX_LEN
    THEN Err("Salt", "invalid length")
    ELSE IF \E i \in 1..Len(s) : ~IsB64Char(s[i])
         THEN Err("Salt", "invalid character")
         ELSE Ok(s)

\* Argon2::hash_password(password, salt).hash
Argon2HashPassword(password, salt) ==
    IF (Len(salt) * 3) \div 4 < ARGON2_MIN_SALT_LEN
    THEN Err("Argon2", "salt too short")
    ELSE Ok(PadTo(SubSeq(salt, 1, Min(HalfKey, Len(salt))), HalfKey)
            \o PadTo(<<Len(password)>> \o password, ARGON2_OUTPUT_LEN - HalfKey))

KeyStream(key, nonce, i) ==
    (key[((i - 1) % KEY_SIZE) + 1] + nonce[((i - 1) % NONCE_SIZE) + 1] + i) % 256

AeadTag(key, nonce, ct) ==
    [i \in 1..TAG_SIZE |->
        (key[i] + key[HalfKey + i] + nonce[((i - 1) % NONCE_SIZE) + 1]
         + SumSeq(ct) + Len(ct)) % 256]

\* Aes256Gcm::encrypt(nonce, plaintext): ciphertext followed by the tag
AesGcmEncrypt(key, nonce, plaintext) ==
    LET ct == [i \in 1..Len(plaintext) |->
                 (plaintext[i] + KeyStream(key, nonce, i)) % 256]
    IN  ct \o AeadTag(key, nonce, ct)

\* Aes256Gcm::decrypt(nonce, ciphertext)
AesGcmDecrypt(key, nonce, bytes) ==
    IF Len(bytes) < TAG_SIZE THEN Err("aead", "too short")
    ELSE LET n   == Len(bytes) - TAG_SIZE
             ct  == SubSeq(bytes, 1, n)
             tag == SubSeq(bytes, n + 1, Len(bytes))
         IN  IF tag # AeadTag(key, nonce, ct) THEN Err("aead", "tag mismatch")
             ELSE Ok([i \in 1..n |->
                        (ct[i] + 256 - KeyStream(key, nonce, i)) % 256])

(***************************************************************************)
(* crypto.rs: EncryptedData, LayeredData, Crypto.                          *)
(***************************************************************************)
EncryptedData(nonce, salt, ciphertext, version) ==
    [nonce |-> nonce, salt |-> salt, ciphertext |-> ciphertext, version |-> version]

LayeredData(decoy_layer, hidden_layer, version, decoy_hint) ==
    [decoy_layer |-> decoy_layer, hidden_layer |-> hidden_layer,
     version |-> version, decoy_hint |-> decoy_hint]

\* A result together with what the call leaves in memory when it returns: the
\* contents of hash, the password_hash::Output the key is a slice of, or None
\* when the call returned before deriving a key.  Output is a plain array of
\* bytes; crypto.rs never writes to it and dropping it writes nothing.
Leaving(r, key_buffer) == r @@ [key_buffer |-> key_buffer]

\* Crypto::encrypt; salt and nonce_bytes are the draws from OsRng.
Encrypt(data, password, salt, nonce_bytes) ==
    LET hash == Argon2HashPassword(password, salt) IN
    IF ~hash.ok
    THEN Leaving(Err("Encryption", "Password hashing failed"), None)
    ELSE IF Len(hash.val) < KEY_SIZE
         THEN Leaving(Err("Encryption", "Derived key too short"), Some(hash.val))
    ELSE LET key        == SubSeq(hash.val, 1, KEY_SIZE)
             ciphertext == AesGcmEncrypt(key, nonce_bytes, data)
         IN  Leaving(Ok(EncryptedData(B64Encode(nonce_bytes), salt,
                                      B64Encode(ciphertext), 1)),
                     Some(hash.val))

VersionUnsupportedAboveOne(version) == version > 1

\* crypto.rs: if encrypted.version != 1
VersionUnsupported(version) == version # 1

\* A result together with the steps the call went through before returning.
Stepped(r, steps) == r @@ [steps |-> steps]

\* Crypto::decrypt
Decrypt(encrypted, password) ==
    IF VersionUnsupported(encrypted.version)
    THEN Leaving(Stepped(Err("Decryption", "Unsupported version"), <<"version">>),
                 None)
    ELSE
    LET salt == SaltFromB64(encrypted.salt) IN
    IF ~salt.ok
    THEN Leaving(Stepped(Err("Decryption", "Invalid salt"), <<"version", "salt">>),
                 None)
    ELSE
    LET hash == Argon2HashPassword(password, salt.val) IN
    IF ~hash.ok
    THEN Leaving(Stepped(Err("Decryption", "Password hashing failed"),
                         <<"version", "salt", "kdf">>),
                 None)
    ELSE
    LET held == Some(hash.val) IN
    IF Len(hash.val) < KEY_SIZE
    THEN Leaving(Stepped(Err("Decryption", "Derived key too short"),
                         <<"version", "salt", "kdf">>),
                 held)
    ELSE
    LET key         == SubSeq(hash.val, 1, KEY_SIZE)
        nonce_bytes == StandardDecode(encrypted.nonce)
    IN
    IF ~nonce_bytes.ok
    THEN Leaving(Stepped(nonce_bytes, <<"version", "salt", "kdf", "nonce">>), held)
    ELSE
    LET ciphertext_bytes == StandardDecode(encrypted.ciphertext) IN
    IF ~ciphertext_bytes.ok
    THEN Leaving(Stepped(ciphertext_bytes,
                         <<"version", "salt", "kdf", "nonce", "ciphertext">>),
                 held)
    ELSE IF Len(nonce_bytes.val) # NONCE_SIZE
    THEN Leaving(Stepped(Err("Decryption", "Invalid nonce size"),
                         <<"version", "salt", "kdf", "nonce", "ciphertext",
                           "nonce_size">>),
                 held)
    ELSE
    LET plaintext == AesGcmDecrypt(key, nonce_bytes.val, ciphertext_bytes.val)
        done == <<"version", "salt", "kdf", "nonce", "ciphertext",
                  "nonce_size", "aead">>
    IN
    IF ~plaintext.ok
    THEN Leaving(Stepped(Err("Decryption", "AES-GCM decryption failed"), done),
                 held)
    ELSE IF ~Utf8Valid(plaintext.val)
    THEN Leaving(Stepped(Err("Decryption", "Invalid UTF-8"), Append(done, "utf8")),
                 held)
    ELSE Leaving(Stepped(Ok(plaintext.val), Append(done, "utf8")), held)

\* Crypto::encrypt_with_decoy; the four draws are those of the two encrypt calls.
EncryptWithDecoy(real_data, real_password, decoy_data, decoy_password, decoy_hint, salt_d, nonce_d, salt_h, nonce_h) ==
    LET decoy_layer == Encrypt(decoy_data, decoy_password, salt_d, nonce_d) IN
    IF ~decoy_layer.ok THEN decoy_layer
    ELSE LET hidden_layer == Encrypt(real_data, real_password, salt_h, nonce_h) IN
         IF ~hidden_layer.ok THEN hidden_layer
         ELSE Ok(LayeredData(decoy_layer.val, Some(hidden_layer.val), 1, decoy_hint))

\* A lookup that never falls through to the hidden layer.
DecryptLayeredDecoyOnly(layered, password) ==
    LET decoy == Decrypt(layered.decoy_layer, password) IN
    IF decoy.ok THEN Ok(<<decoy.val, FALSE>>)
    ELSE Err("Decryption", "Password does not match any layer")

\* A result together with the layers self.decrypt was called on, in order.
Attempted(r, layers) == r @@ [attempted |-> layers]

\* A lookup that tries the hidden layer before the decoy layer.
DecryptLayeredHiddenFirst(layered, password) ==
    LET hidden == IF layered.hidden_layer.kind = "Some"
                  THEN Decrypt(layered.hidden_layer.val, password)
                  ELSE Err("Decryption", "no hidden layer")
    IN
    IF hidden.ok
    THEN Attempted(Ok(<<hidden.val, TRUE>>), <<"hidden_layer">>)
    ELSE LET decoy == Decrypt(layered.decoy_layer, password) IN
         IF decoy.ok
         THEN Attempted(Ok(<<decoy.val, FALSE>>), <<"hidden_layer", "decoy_layer">>)
         ELSE Attempted(Err("Decryption", "Password does not match any layer"),
                        <<"hidden_layer", "decoy_layer">>)

\* Crypto::decrypt_layered
DecryptLayered(layered, password) ==
    LET decoy == Decrypt(layered.decoy_layer, password) IN
    IF decoy.ok THEN Attempted(Ok(<<decoy.val, FALSE>>), <<"decoy_layer">>)
    ELSE IF layered.hidden_layer.kind = "Some"
    THEN LET hidden == Decrypt(layered.hidden_layer.val, password) IN
         IF hidden.ok
         THEN Attempted(Ok(<<hidden.val, TRUE>>), <<"decoy_layer", "hidden_layer">>)
         ELSE Attempted(Err("Decryption", "Password does not match any layer"),
                        <<"decoy_layer", "hidden_layer">>)
    ELSE Attempted(Err("Decryption", "Password does not match any layer"),
                   <<"decoy_layer">>)

(***************************************************************************)
(* GF(256) with the AES reduction polynomial x^8 + x^4 + x^3 + x + 1, the  *)
(* field of vsss_rs::Gf256.  Addition is XOR; multiplication is defined    *)
(* bit by bit and then tabulated through powers of the generator 3.        *)
(***************************************************************************)
RECURSIVE XorBits(_, _, _)
XorBits(a, b, n) ==
    IF n = 0 THEN 0
    ELSE ((a + b) % 2) + 2 * XorBits(a \div 2, b \div 2, n - 1)

GfAdd(a, b) == XorBits(a, b, 8)

XTime(a) == IF 2 * a >= 256 THEN GfAdd(2 * a - 256, 27) ELSE 2 * a

RECURSIVE GfMulBits(_, _)
GfMulBits(a, b) ==
    IF b = 0 THEN 0
    ELSE GfAdd(IF b % 2 = 1 THEN a ELSE 0, GfMulBits(XTime(a), b \div 2))

RECURSIVE GfPowBits(_, _)
GfPowBits(a, e) ==
    IF e = 0 THEN 1
    ELSE LET h == GfPowBits(a, e \div 2)
             q == GfMulBits(h, h)
         IN  IF e % 2 = 1 THEN GfMulBits(q, a) ELSE q

RECURSIVE GfExpBuild(_, _)
GfExpBuild(lo, hi) ==
    IF lo = hi THEN <<GfPowBits(3, lo)>>
    ELSE LET mid == (lo + hi) \div 2
         IN  GfExpBuild(lo, mid) \o GfExpBuild(mid + 1, hi)

\* GfExpTable[i + 1] = 3^i, for i in 0..254.
GfExpTable == GfExpBuild(0, 254)

RECURSIVE GfLogBuild(_, _)
GfLogBuild(lo, hi) ==
    IF lo = hi THEN <<CHOOSE i \in 0..254 : GfExpTable[i + 1] = lo>>
    ELSE LET mid == (lo + hi) \div 2
         IN  GfLogBuild(lo, mid) \o GfLogBuild(mid + 1, hi)

\* GfLogTable[a] = the i in 0..254 with 3^i = a, for a in 1..255.
GfLogTable == GfLogBuild(1, 255)

GfMul(a, b) ==
    IF a = 0 \/ b = 0 THEN 0
    ELSE GfExpTable[((GfLogTable[a] + GfLogTable[b]) % 255) + 1]

\* b is not 0.
GfDiv(a, b) ==
    IF a = 0 THEN 0
    ELSE GfExpTable[((GfLogTable[a] + 255 - GfLogTable[b]) % 255) + 1]

(***************************************************************************)
(* vsss_rs (library): shamir::split_secret and combine_shares over Gf256,  *)
(* with shares of type (u8, Vec<u8>): the identifier x and the one-byte    *)
(* value y.  coefficients are the draws from the random source, one per    *)
(* degree 1..threshold-1.                                                  *)
(***************************************************************************)
VSSS_MIN_THRESHOLD == 2

RECURSIVE GfPolyEval(_, _)
\* Horner: c[1] + x * (c[2] + x * (...))
GfPolyEval(c, x) ==
    IF c = <<>> THEN 0
    ELSE GfAdd(c[1], GfMul(x, GfPolyEval(Tail(c), x)))

VsssSplitSecret(threshold, limit, secret, coefficients) ==
    IF limit < threshold THEN Err("vsss", "SharingLimitLessThanThreshold")
    ELSE IF threshold < VSSS_MIN_THRESHOLD THEN Err("vsss", "SharingMinThreshold")
    ELSE Ok([i \in 1..limit |->
                <<i, <<GfPolyEval(<<secret>> \o coefficients, i)>> >>])

\* The Lagrange basis value at 0 of point i among the points xs.
RECURSIVE LagrangeBasis(_, _, _)
LagrangeBasis(xs, i, j) ==
    IF j > Len(xs) THEN 1
    ELSE IF j = i THEN LagrangeBasis(xs, i, j + 1)
    ELSE GfMul(GfDiv(xs[j], GfAdd(xs[j], xs[i])), LagrangeBasis(xs, i, j + 1))

RECURSIVE Interpolate(_, _, _)
Interpolate(xs, ys, i) ==
    IF i > Len(xs) THEN 0
    ELSE GfAdd(GfMul(ys[i], LagrangeBasis(xs, i, 1)), Interpolate(xs, ys, i + 1))

VsssCombineShares(shares) ==
    IF Len(shares) < VSSS_MIN_THRESHOLD THEN Err("vsss", "SharingMinThreshold")
    ELSE IF \E i \in 1..Len(shares) : shares[i][1] = 0
         THEN Err("vsss", "SharingInvalidIdentifier")
    ELSE IF \E i \in 1..Len(shares) : Len(shares[i][2]) # 1
         THEN Err("vsss", "InvalidShareConversion")
    ELSE IF \E i, j \in 1..Len(shares) : i # j /\ shares[i][1] = shares[j][1]
         THEN Err("vsss", "SharingDuplicateIdentifier")
    ELSE Ok(Interpolate([i \in 1..Len(shares) |-> shares[i][1]],
                        [i \in 1..Len(shares) |-> shares[i][2][1]], 1))

(***************************************************************************)
(* bincode (library), as bincode::serialize / bincode::deserialize encode  *)
(* a Vec<(u8, Vec<u8>)>: a length as 8 little-endian bytes, then for each  *)
(* entry the byte x, the length of y as 8 little-endian bytes, and y.      *)
(* Lengths of 2^16 and more do not occur in the model; deserialize reports *)
(* them as running past the end of the input, which they would.            *)
(***************************************************************************)
U64_SIZE == 8

U64Le(n) == [i \in 1..U64_SIZE |-> IF i = 1 THEN n % 256
                                   ELSE IF i = 2 THEN (n \div 256) % 256
                                   ELSE 0]

RECURSIVE ConcatAll(_)
ConcatAll(ss) == IF ss = <<>> THEN <<>> ELSE ss[1] \o ConcatAll(Tail(ss))

BincodeSerialize(entries) ==
    U64Le(Len(entries))
    \o ConcatAll([i \in 1..Len(entries) |->
                    <<entries[i][1]>> \o U64Le(Len(entries[i][2])) \o entries[i][2]])

\* The length at the head of b, or -1 when b is too short or the length too large.
ReadU64(b) ==
    IF Len(b) < U64_SIZE THEN -1
    ELSE IF \E i \in 3..U64_SIZE : b[i] # 0 THEN -1
    ELSE b[1] + 256 * b[2]

RECURSIVE BincodeEntries(_, _)
\* count entries read from the head of b.
BincodeEntries(b, count) ==
    IF count = 0 THEN Ok(<<>>)
    ELSE IF Len(b) < 1 THEN Err("bincode", "unexpected end")
    ELSE LET n == ReadU64(Tail(b)) IN
         IF n < 0 \/ Len(b) < 1 + U64_SIZE + n THEN Err("bincode", "unexpected end")
         ELSE LET rest == BincodeEntries(SubSeq(b, 2 + U64_SIZE + n, Len(b)), count - 1)
              IN  IF ~rest.ok THEN rest
                  ELSE Ok(<< <<b[1], SubSeq(b, 2 + U64_SIZE, 1 + U64_SIZE + n)>> >>
                          \o rest.val)

BincodeDeserialize(b) ==
    LET count == ReadU64(b) IN
    IF count < 0 THEN Err("bincode", "unexpected end")
    ELSE BincodeEntries(SubSeq(b, U64_SIZE + 1, Len(b)), count)

(***************************************************************************)
(* shamir.rs: ShamirShare, ShamirSecretSharing.                            *)
(***************************************************************************)
ShamirShare(share_id, threshold, total_shares, share_data, version) ==
    [share_id |-> share_id, threshold |-> threshold,
     total_shares |-> total_shares, share_data |-> share_data,
     version |-> version]

ShamirErr(msg) == Err("ShamirError", msg)

\* The i-th draw (from 0) of a random source that yields the bytes of stream.
Draw(stream, i) == stream[(i % Len(stream)) + 1]

\* An identifier that keeps the loop index: the first share gets 0.
ShareIdFromZero(share_idx) == share_idx

\* shamir.rs: share_id: share_idx + 1, in u8
ShareIdOf(share_idx) == (share_idx + 1) % 256

\* A regrouping that takes the first share of every byte, whatever the index.
ShareDataOfFirst(all_shares, share_idx) ==
    [b \in 1..Len(all_shares) |-> all_shares[b].val[1]]

\* shamir.rs: share_data_for_share, the entry of share share_idx (from 0) of
\* every byte of the secret, in the order of the bytes
ShareDataForShare(all_shares, share_idx) ==
    [b \in 1..Len(all_shares) |-> all_shares[b].val[share_idx + 1]]

\* ShamirSecretSharing::split_secret; stream gives the draws from OsRng, taken
\* in order: threshold - 1 coefficients for each byte of the secret.
SplitSecret(secret, threshold, total_shares, stream) ==
    IF threshold = 0 \/ total_shares = 0
    THEN ShamirErr("Threshold and total shares must be greater than 0")
    ELSE IF threshold > total_shares
    THEN ShamirErr("Threshold cannot be greater than total shares")
    ELSE
    LET all_shares ==
            [b \in 1..Len(secret) |->
                VsssSplitSecret(threshold, total_shares, secret[b],
                    [j \in 1..(threshold - 1) |->
                        Draw(stream, (b - 1) * (threshold - 1) + (j - 1))])]
    IN
    IF \E b \in 1..Len(secret) : ~all_shares[b].ok
    THEN ShamirErr("Failed to split secret byte")
    ELSE Ok([i \in 1..total_shares |->
                LET share_idx == i - 1 IN
                ShamirShare(
                    ShareIdOf(share_idx),
                    threshold,
                    total_shares,
                    B64Encode(BincodeSerialize(
                        ShareDataForShare(all_shares, share_idx))),
                    1)])

\* The decoding of one share's share_data in reconstruct_secret.
DecodeShare(share) ==
    LET share_bytes == StandardDecode(share.share_data) IN
    IF ~share_bytes.ok THEN ShamirErr("Invalid base64 in share")
    ELSE LET entries == BincodeDeserialize(share_bytes.val) IN
         IF ~entries.ok THEN ShamirErr("Invalid share format") ELSE entries

\* A comparison that is off by one: one share fewer than the threshold passes.
InsufficientOffByOne(have, threshold) == have + 1 < threshold

\* shamir.rs: if shares.len() < first_share.threshold as usize
Insufficient(have, threshold) == have < threshold

\* shamir.rs: the parameter comparison in the loop of reconstruct_secret
ParamsDiffer(share, first_share) ==
    \/ share.threshold # first_share.threshold
    \/ share.total_shares # first_share.total_shares
    \/ share.version # first_share.version

\* A length check that only notices the shares shorter than the first.
ShorterThanFirst(decoded_shares, byte_count) ==
    \E i \in 1..Len(decoded_shares) : Len(decoded_shares[i].val) < byte_count

\* shamir.rs: the loop over decoded_shares comparing share.len() to byte_count
LengthsDiffer(decoded_shares, byte_count) ==
    \E i \in 1..Len(decoded_shares) : Len(decoded_shares[i].val) # byte_count

\* ShamirSecretSharing::reconstruct_secret
ReconstructSecret(shares) ==
    IF shares = <<>> THEN ShamirErr("No shares provided")
    ELSE
    LET first_share == shares[1]
        n == Len(shares)
    IN
    IF \E i \in 2..n : ParamsDiffer(shares[i], first_share)
    THEN ShamirErr("Inconsistent share parameters")
    ELSE IF first_share.version # 1 THEN ShamirErr("Unsupported version")
    ELSE IF Insufficient(n, first_share.threshold)
    THEN ShamirErr("Insufficient shares")
    ELSE
    LET decoded_shares == [i \in 1..n |-> DecodeShare(shares[i])] IN
    IF \E i \in 1..n : ~decoded_shares[i].ok
    THEN decoded_shares[Least(1, n, [i \in 1..n |-> ~decoded_shares[i].ok])]
    ELSE
    LET byte_count == Len(decoded_shares[1].val) IN
    IF LengthsDiffer(decoded_shares, byte_count)
    THEN ShamirErr("Shares have inconsistent lengths")
    ELSE
    LET bytes == [byte_idx \in 1..byte_count |->
                    VsssCombineShares(
                        [i \in 1..n |-> decoded_shares[i].val[byte_idx]])]
    IN
    IF \E b \in 1..byte_count : ~bytes[b].ok
    THEN ShamirErr("Failed to reconstruct byte")
    ELSE
    LET secret_bytes == [b \in 1..byte_count |-> bytes[b].val] IN
    IF ~Utf8Valid(secret_bytes)
    THEN ShamirErr("Invalid UTF-8 in reconstructed secret")
    ELSE Ok(secret_bytes)

\* A parameter check that forgets the version.
ParamsDifferNoVersion(share, first_share) ==
    \/ share.threshold # first_share.threshold
    \/ share.total_shares # first_share.total_shares

\* A parameter check that, as reconstruct_secret does, also refuses versions
\* other than 1.
InconsistentOrUnsupported(share, first_share) ==
    \/ ParamsDiffer(share, first_share)
    \/ share.version # 1

\* shamir.rs: the parameter comparison in the loop of validate_shares
Inconsistent(share, first_share) ==
    \/ share.threshold # first_share.threshold
    \/ share.total_shares # first_share.total_shares
    \/ share.version # first_share.version

\* A dedup that is applied without sorting: drops only adjacent repetitions.
DedupLenUnsorted(shares) ==
    Cardinality({i \in 1..Len(shares) :
                    i = 1 \/ shares[i].share_id # shares[i - 1].share_id})

\* shamir.rs: share_ids.len() after sort_unstable() and dedup(), which leaves
\* as many ids as there are distinct ones.
DistinctIds(shares) == Cardinality({shares[i].share_id : i \in 1..Len(shares)})

\* An identifier check that only refuses 0.
InvalidShareIdZeroOnly(share) == share.share_id = 0

\* shamir.rs: if share.share_id == 0 || share.share_id > share.total_shares
InvalidShareId(share) ==
    share.share_id = 0 \/ share.share_id > share.total_shares

\* ShamirSecretSharing::validate_shares
ValidateShares(shares) ==
    IF shares = <<>> THEN ShamirErr("No shares provided for validation")
    ELSE
    LET first_share == shares[1]
        n == Len(shares)
        BadId(i)   == InvalidShareId(shares[i])
        BadData(i) == ~StandardDecode(shares[i].share_data).ok
        Bad(i)     == Inconsistent(shares[i], first_share) \/ BadId(i) \/ BadData(i)
    IN
    IF \E i \in 1..n : Bad(i)
    THEN LET i == Least(1, n, [k \in 1..n |-> Bad(k)]) IN
         IF Inconsistent(shares[i], first_share)
         THEN ShamirErr("Inconsistent share parameters")
         ELSE IF BadId(i) THEN ShamirErr("Invalid share ID")
         ELSE ShamirErr("Invalid base64 encoding in share data")
    ELSE IF DistinctIds(shares) # n
    THEN ShamirErr("Duplicate share IDs detected")
    ELSE Ok(TRUE)

(***************************************************************************)
(* The cryptographic core as a state machine: an envelope is produced by   *)
(* encrypt or encrypt_with_decoy, may be damaged while stored, and is      *)
(* handed to decrypt or decrypt_layered with some password.                *)
(***************************************************************************)
MaxDamage == 2

Plaintexts == Strings(PlainBytes, MaxPlainLen)

\* Draws of SaltString::generate(&mut OsRng) and OsRng.fill_bytes.
GenSalts == {[i \in 1..SALT_GEN_LEN |-> c] : c \in {7, 41}}

GenNonces == {[i \in 1..NONCE_SIZE |-> b] : b \in {0, 254}}

DecoyHints == {None, Some(<<104>>)}

NoCall == [op |-> "none"]

\* Ways a stored EncryptedData can be damaged, by the field damaged.
Damaged(env, damage) ==
    CASE damage = "version_0"  -> [env EXCEPT !.version = 0]
      [] damage = "version_2"  -> [env EXCEPT !.version = 2]
      [] damage = "salt_short" -> [env EXCEPT !.salt = SubSeq(@, 1, 3)]
      [] damage = "salt_char"  -> [env EXCEPT !.salt = [@ EXCEPT ![1] = 65]]
      [] damage = "salt_weak"  -> [env EXCEPT !.salt = SubSeq(@, 1, 8)]
      [] damage = "nonce_len"  -> [env EXCEPT !.nonce = B64Encode(<<1, 2, 3>>)]
      [] damage = "nonce_b64"  -> [env EXCEPT !.nonce = [@ EXCEPT ![2] = 65]]
      [] damage = "ct_b64"     -> [env EXCEPT !.ciphertext = [@ EXCEPT ![1] = 65]]
      [] damage = "ct_flip"    ->
            [env EXCEPT !.ciphertext = [@ EXCEPT ![1] = (@ + 1) % 64]]

Damages ==
    {"version_0", "version_2", "salt_short", "salt_char", "salt_weak",
     "nonce_len", "nonce_b64", "ct_b64", "ct_flip"}

DamagedField(damage) ==
    CASE damage \in {"version_0", "version_2"} -> "version"
      [] damage \in {"salt_short", "salt_char", "salt_weak"} -> "salt"
      [] damage \in {"nonce_len", "nonce_b64"} -> "nonce"
      [] damage \in {"ct_b64", "ct_flip"} -> "ciphertext"

Init ==
    /\ artifact = None
    /\ provenance = None
    /\ call = NoCall
    /\ result = None

DoEncrypt ==
    /\ artifact = None
    /\ \E data \in Plaintexts, password \in Passwords,
          salt \in GenSalts, nonce_bytes \in GenNonces :
        LET r == Encrypt(data, password, salt, nonce_bytes) IN
        /\ call' = [op |-> "encrypt", data |-> data, password |-> password]
        /\ result' = r
        /\ artifact' = IF r.ok THEN [kind |-> "EncryptedData", env |-> r.val]
                       ELSE None
        /\ provenance' = IF r.ok
                         THEN [op |-> "encrypt", data |-> data,
                               password |-> password, damage |-> {}]
                         ELSE None

DoDamage ==
    /\ artifact.kind = "EncryptedData"
    /\ Cardinality(provenance.damage) < MaxDamage
    /\ \E damage \in Damages :
        /\ \A d \in provenance.damage : DamagedField(d) # DamagedField(damage)
        /\ artifact' = [artifact EXCEPT !.env = Damaged(@, damage)]
        /\ provenance' = [provenance EXCEPT !.damage = @ \cup {damage}]
    /\ call' = NoCall
    /\ result' = None

DoDecrypt ==
    /\ artifact.kind = "EncryptedData"
    /\ \E password \in Passwords :
        /\ call' = [op |-> "decrypt", password |-> password]
        /\ result' = Decrypt(artifact.env, password)
    /\ UNCHANGED <<artifact, provenance>>

DoEncryptWithDecoy ==
    /\ artifact = None
    /\ \E real_data \in Plaintexts, real_password \in Passwords,
          decoy_data \in Plaintexts, decoy_password \in Passwords,
          decoy_hint \in DecoyHints,
          salt_d \in GenSalts, nonce_d \in GenNonces,
          salt_h \in GenSalts, nonce_h \in GenNonces :
        LET r == EncryptWithDecoy(real_data, real_password, decoy_data,
                                  decoy_password, decoy_hint,
                                  salt_d, nonce_d, salt_h, nonce_h)
        IN
        /\ call' = [op |-> "encrypt_with_decoy"]
        /\ result' = r
        /\ artifact' = IF r.ok THEN [kind |-> "LayeredData", layered |-> r.val]
                       ELSE None
        /\ provenance' = IF r.ok
                         THEN [op |-> "encrypt_with_decoy",
                               real_data |-> real_data,
                               real_password |-> real_password,
                               decoy_data |-> decoy_data,
                               decoy_password |-> decoy_password,
                               damage |-> {}]
                         ELSE None

DoDecryptLayered ==
    /\ artifact.kind = "LayeredData"
    /\ \E password \in Passwords :
        /\ call' = [op |-> "decrypt_layered", password |-> password]
        /\ result' = DecryptLayered(artifact.layered, password)
    /\ UNCHANGED <<artifact, provenance>>

Next ==
    \/ DoEncrypt
    \/ DoDamage
    \/ DoDecrypt
    \/ DoEncryptWithDecoy
    \/ DoDecryptLayered

Spec == Init /\ [][Next]_vars

(***************************************************************************)
(* Properties of the cryptographic core, checked under Spec.               *)
(***************************************************************************)
Intact == provenance.damage = {}

\* C1: encrypt succeeds for every plaintext and password, and decrypt of the
\* envelope it returned, with the same password, succeeds and returns the
\* plaintext.
C1_EncryptDecryptRoundTrip ==
    /\ call.op = "encrypt" => result.ok
    /\ (call.op = "decrypt" /\ Intact /\ call.password = provenance.password)
        => (result.ok /\ result.val = provenance.data)

C1_Witness ==
    /\ call.op = "decrypt" /\ Intact
    /\ call.password = provenance.password
    /\ provenance.password # <<>>
    /\ result.ok /\ result.val = <<195, 169>>

\* C3: on a LayeredData built by encrypt_with_decoy with two different
\* passwords, decrypt_layered returns (decoy, false) for the decoy password,
\* (real, true) for the real password, and for any other password fails with
\* the password-mismatch error and returns no plaintext.
C3_LayeredRouting ==
    (/\ call.op = "decrypt_layered" /\ Intact
     /\ provenance.real_password # provenance.decoy_password)
    => /\ call.password = provenance.decoy_password
            => result.ok /\ result.val = <<provenance.decoy_data, FALSE>>
       /\ call.password = provenance.real_password
            => result.ok /\ result.val = <<provenance.real_data, TRUE>>
       /\ call.password \notin {provenance.decoy_password, provenance.real_password}
            => /\ ~result.ok
               /\ result.kind = "Decryption"
               /\ result.msg = "Password does not match any layer"

C3_Witness ==
    /\ call.op = "decrypt_layered" /\ Intact
    /\ provenance.real_password # provenance.decoy_password
    /\ call.password = provenance.real_password
    /\ provenance.real_data # provenance.decoy_data
    /\ result.ok /\ result.val = <<provenance.real_data, TRUE>>

\* The variant of QRCryptError that decrypt returns when the AEAD tag does not
\* verify (crypto.rs: map_err on cipher.decrypt).
WrongPasswordKind == "Decryption"

\* The failures of decrypt that come from the artifact, not from the password.
CorruptedArtifactFailure(r) ==
    \/ r.kind = "Base64Decode"
    \/ r.msg \in {"Unsupported version", "Invalid salt", "Invalid nonce size"}

\* C4: decrypt with a wrong password fails with the kind reserved for an
\* authentication failure, and no failure caused by a corrupted artifact
\* (unsupported version, malformed salt or base64, wrong nonce length) carries
\* that kind.
C4_AuthKindDistinct ==
    (call.op = "decrypt" /\ ~result.ok)
    => /\ (Intact /\ call.password # provenance.password)
            => result.kind = WrongPasswordKind
       /\ CorruptedArtifactFailure(result) => result.kind # WrongPasswordKind

\* C10: decrypt of an envelope whose version is not 1 fails with the
\* unsupported-version error whatever the password and the other fields, and
\* returns at the version check: no salt is parsed, no key derived, nothing
\* decrypted.
C10_VersionRejectedFirst ==
    (call.op = "decrypt" /\ artifact.env.version # 1)
    => /\ ~result.ok
       /\ result.kind = "Decryption"
       /\ result.msg = "Unsupported version"
       /\ result.steps = <<"version">>

C10_Witness ==
    /\ call.op = "decrypt"
    /\ artifact.env.version = 0
    /\ "salt_char" \in provenance.damage
    /\ call.password = provenance.password
    /\ result.msg = "Unsupported version"

\* A result that is an ordinary success carrying a LayeredData and nothing else.
OrdinaryLayered(r) ==
    /\ r.ok
    /\ DOMAIN r = {"ok", "val"}
    /\ DOMAIN r.val = {"decoy_layer", "hidden_layer", "version", "decoy_hint"}
    /\ r.val.version = 1
    /\ r.val.hidden_layer.kind = "Some"

\* C16: encrypt_with_decoy called with real_password equal to decoy_password
\* either refuses or signals a warning through its result; it never returns
\* an ordinary LayeredData like the one returned for two different passwords.
C16_SamePasswordSignalled ==
    (/\ call.op = "encrypt_with_decoy"
     /\ result.ok
     /\ provenance.real_password = provenance.decoy_password)
    => ~OrdinaryLayered(result)

\* C17: after encrypt or decrypt returns, on the success path and on every
\* error path, every buffer that held the derived 32-byte key is all zeros.
C17_KeyBufferZeroed ==
    (call.op \in {"encrypt", "decrypt"} /\ result.key_buffer # None)
    => \A i \in 1..Len(result.key_buffer.val) : result.key_buffer.val[i] = 0

\* The envelopes whose nonce field decodes to a byte string of another length
\* than NONCE_SIZE.
NonceOfWrongLength(env) ==
    LET OfWrongLength(nonce_bytes) ==
            nonce_bytes.ok /\ Len(nonce_bytes.val) # NONCE_SIZE
    IN  OfWrongLength(StandardDecode(env.nonce))

\* C24: decrypt fails with a parse-kind error, not with the kind of an
\* authentication failure, and returns no plaintext on every envelope whose
\* nonce field base64-decodes to a byte string of length other than 12,
\* whatever the password.
C24_NonceLengthParseError ==
    (call.op = "decrypt" /\ NonceOfWrongLength(artifact.env))
    => /\ ~result.ok
       /\ result.kind # WrongPasswordKind

\* What decrypt does on such an envelope: it fails whatever the password, and
\* when nothing else is wrong with the envelope, with "Invalid nonce size".
NonceLengthRefused ==
    (call.op = "decrypt" /\ NonceOfWrongLength(artifact.env))
    => /\ ~result.ok
       /\ provenance.damage = {"nonce_len"}
            => /\ result.kind = "Decryption"
               /\ result.msg = "Invalid nonce size"

\* C28: whenever the password decrypts the decoy layer, decrypt_layered
\* returns (decoy plaintext, false) and the hidden layer is never attempted;
\* hence on a LayeredData whose two layers were encrypted under one password
\* no password makes decrypt_layered return the hidden layer's secret.
C28_DecoyShadowsHidden ==
    LET Shadowed(decoy) ==
            /\ decoy.ok
                => /\ result.ok
                   /\ result.val = <<decoy.val, FALSE>>
                   /\ result.attempted = <<"decoy_layer">>
            /\ provenance.real_password = provenance.decoy_password
                => /\ result.ok => result.val = <<provenance.decoy_data, FALSE>>
                   /\ result.ok <=> call.password = provenance.decoy_password
    IN
    call.op = "decrypt_layered"
    => Shadowed(Decrypt(artifact.layered.decoy_layer, call.password))

C28_Witness ==
    /\ call.op = "decrypt_layered"
    /\ provenance.real_password = provenance.decoy_password
    /\ call.password = provenance.real_password
    /\ provenance.real_data = <<195, 169>>
    /\ provenance.decoy_data = <<>>
    /\ result.ok /\ result.val = <<<<>>, FALSE>>
    /\ result.attempted = <<"decoy_layer">>

(***************************************************************************)
(* A stored LayeredData whose decoy layer gets damaged: encrypt_with_decoy *)
(* makes it, one field of its decoy layer is damaged, and decrypt_layered  *)
(* is called on it with some password.                                     *)
(***************************************************************************)
\* The secrets layered here: "A" and U+00E9 as real, "z" and "" as decoy.
LayeredReals == {<<65>>, <<195, 169>>}

LayeredDecoys == {<<122>>, <<>>}

DoStoreLayered ==
    /\ artifact = None
    /\ \E real_data \in LayeredReals, real_password \in Passwords,
          decoy_data \in LayeredDecoys, decoy_password \in Passwords,
          salt \in GenSalts, nonce_bytes \in GenNonces :
        LET r == EncryptWithDecoy(real_data, real_password, decoy_data,
                                  decoy_password, None,
                                  salt, nonce_bytes, salt, nonce_bytes)
        IN
        /\ r.ok
        /\ call' = [op |-> "encrypt_with_decoy"]
        /\ result' = r
        /\ artifact' = [kind |-> "LayeredData", layered |-> r.val]
        /\ provenance' = [op |-> "encrypt_with_decoy",
                          real_data |-> real_data,
                          real_password |-> real_password,
                          decoy_data |-> decoy_data,
                          decoy_password |-> decoy_password,
                          damage |-> {}]

\* The decoy layer of the stored LayeredData is damaged, once.
DoDamageDecoyLayer ==
    /\ artifact.kind = "LayeredData"
    /\ provenance.damage = {}
    /\ \E damage \in Damages :
        /\ artifact' = [artifact EXCEPT !.layered.decoy_layer = Damaged(@, damage)]
        /\ provenance' = [provenance EXCEPT !.damage = {damage}]
    /\ call' = NoCall
    /\ result' = None

\* The stored LayeredData carries another version than the one
\* encrypt_with_decoy writes; its two layers are left as they are.
DoChangeLayeredVersion ==
    /\ artifact.kind = "LayeredData"
    /\ provenance.damage = {}
    /\ \E version \in {0, 2} :
        /\ artifact' = [artifact EXCEPT !.layered.version = version]
        /\ provenance' = [provenance EXCEPT !.damage = {"layered_version"}]
    /\ call' = NoCall
    /\ result' = None

DecoyNext ==
    \/ DoStoreLayered
    \/ DoDamageDecoyLayer
    \/ DoChangeLayeredVersion
    \/ DoDecryptLayered

DecoySpec == Init /\ [][DecoyNext]_vars

\* The failure of decrypt that is an authentication failure: the AEAD tag did
\* not verify.
AuthenticationFailure(r) == ~r.ok /\ r.msg = "AES-GCM decryption failed"

\* C18: decrypt_layered falls through to the hidden layer only when the decoy
\* layer fails with an authentication failure; any other failure of the decoy
\* layer is returned to the caller and the hidden layer is not attempted.
C18_OnlyAuthFailureFallsThrough ==
    call.op = "decrypt_layered"
    => LET decoy == Decrypt(artifact.layered.decoy_layer, call.password) IN
       (~decoy.ok /\ ~AuthenticationFailure(decoy))
        => /\ ~result.ok
           /\ result.kind = decoy.kind
           /\ result.msg = decoy.msg

\* C22: decrypt_layered fails and returns no plaintext on every LayeredData
\* whose own version field is not 1, even when both layers have version 1
\* and the password matches one of them.
C22_LayeredVersionRefused ==
    (call.op = "decrypt_layered" /\ artifact.layered.version # 1)
    => ~result.ok

(***************************************************************************)
(* Secret sharing as a state machine: split_secret produces the shares of  *)
(* a secret; a selection of them, in any order and possibly with one share *)
(* altered or repeated, is handed to reconstruct_secret.                   *)
(***************************************************************************)
MaxShares == 3

MaxSecretLen == 2

\* Bytes secrets are drawn from: 'A', 'z', and the two bytes of U+00E9.
SecretBytes == {65, 122, 195, 169}

Secrets == Strings(SecretBytes, MaxSecretLen)

\* Outcomes of the random source: the bytes it yields, in order, repeated.
RngStreams == {<<83, 0, 202>>, <<1, 255>>}

IsInjective(s) == \A i, j \in 1..Len(s) : i # j => s[i] # s[j]

\* The selections of n shares: sequences of distinct positions.
Selections(n) == {s \in SeqsUpTo(1..n, n) : IsInjective(s)}

Alterations == {"version", "threshold", "truncate", "repeat"}

\* The entries of a share's data without the last one, encoded again.
Truncated(share_data) ==
    LET entries == BincodeDeserialize(B64Decode(share_data).val).val IN
    IF entries = <<>> THEN share_data
    ELSE B64Encode(BincodeSerialize(SubSeq(entries, 1, Len(entries) - 1)))

Altered(T, pos, alteration) ==
    CASE alteration = "version"   -> [T EXCEPT ![pos].version = 2]
      [] alteration = "threshold" -> [T EXCEPT ![pos].threshold = @ + 1]
      [] alteration = "truncate"  -> [T EXCEPT ![pos].share_data = Truncated(@)]
      [] alteration = "repeat"    -> Append(T, T[pos])

\* The share sets offered to reconstruct_secret, given the emitted shares.
ShareSets(shares) ==
    LET plain == {[i \in 1..Len(sel) |-> shares[sel[i]]] :
                    sel \in Selections(Len(shares))}
    IN  plain \cup {Altered(T, pos, a) :
                      <<T, pos, a>> \in {<<T, pos, a>> \in
                          plain \X (1..Len(shares)) \X Alterations :
                              pos <= Len(T)}}

ShamirInit ==
    /\ artifact = None
    /\ provenance = None
    /\ call = NoCall
    /\ result = None

DoSplitSecret ==
    /\ artifact = None
    /\ call = NoCall
    /\ \E secret \in Secrets, threshold \in 0..MaxShares,
          total_shares \in 0..MaxShares, stream \in RngStreams :
        LET r == SplitSecret(secret, threshold, total_shares, stream) IN
        /\ call' = [op |-> "split_secret"]
        /\ result' = r
        /\ provenance' = [op |-> "split_secret", secret |-> secret,
                          threshold |-> threshold, total_shares |-> total_shares]
        /\ artifact' = IF r.ok THEN [kind |-> "Shares", shares |-> r.val]
                       ELSE [kind |-> "NoShares"]

DoReconstructSecret ==
    /\ artifact.kind = "Shares"
    /\ call.op = "split_secret"
    /\ \E T \in ShareSets(artifact.shares) :
        /\ call' = [op |-> "reconstruct_secret", shares |-> T]
        /\ result' = ReconstructSecret(T)
    /\ UNCHANGED <<artifact, provenance>>

ShamirNext ==
    \/ DoSplitSecret
    \/ DoReconstructSecret

ShamirSpec == ShamirInit /\ [][ShamirNext]_vars

(***************************************************************************)
(* Properties of secret sharing, checked under ShamirSpec.                 *)
(***************************************************************************)
\* The share set of the last call is made of emitted shares, each at most once.
FromEmitted(T) ==
    /\ \A i \in 1..Len(T) : \E j \in 1..Len(artifact.shares) : T[i] = artifact.shares[j]
    /\ IsInjective(T)

\* C2: for every secret and every 1 <= k <= n <= 255 split_secret succeeds, and
\* reconstruct_secret on any k or more of the emitted shares returns the secret.
C2_SplitReconstructRoundTrip ==
    /\ (/\ call.op = "split_secret"
        /\ 1 <= provenance.threshold
        /\ provenance.threshold <= provenance.total_shares)
        => result.ok
    /\ (/\ call.op = "reconstruct_secret"
        /\ FromEmitted(call.shares)
        /\ Len(call.shares) >= provenance.threshold)
        => result = Ok(provenance.secret)

\* The same for thresholds of 2 and more, the ones the sharing library takes.
RoundTripFromThresholdTwo ==
    /\ (/\ call.op = "split_secret"
        /\ VSSS_MIN_THRESHOLD <= provenance.threshold
        /\ provenance.threshold <= provenance.total_shares)
        => result.ok
    /\ (/\ call.op = "reconstruct_secret"
        /\ FromEmitted(call.shares)
        /\ Len(call.shares) >= provenance.threshold
        /\ provenance.threshold >= VSSS_MIN_THRESHOLD)
        => result = Ok(provenance.secret)

\* C5: reconstruct_secret on fewer shares than the threshold recorded in them
\* fails with a ShamirError and returns no secret; when the shares agree on
\* their parameters and carry version 1 the error is the insufficient-shares one.
C5_InsufficientShares ==
    (/\ call.op = "reconstruct_secret"
     /\ call.shares # <<>>
     /\ Len(call.shares) < call.shares[1].threshold)
    => /\ ~result.ok
       /\ result.kind = "ShamirError"
       /\ (/\ \A i \in 1..Len(call.shares) :
                ~ParamsDiffer(call.shares[i], call.shares[1])
           /\ call.shares[1].version = 1)
            => result.msg = "Insufficient shares"

C5_Witness ==
    /\ call.op = "reconstruct_secret"
    /\ FromEmitted(call.shares)
    /\ Len(call.shares) = 2
    /\ call.shares[1].threshold = 3
    /\ provenance.secret # <<>>
    /\ ~result.ok /\ result.msg = "Insufficient shares"

\* C11: split_secret(m, k, n) returns shares if and only if 0 < k <= n <= 255;
\* when k = 0, n = 0 or k > n it returns a ShamirError and emits no share.
C11_SplitAcceptsValidParameters ==
    call.op = "split_secret"
    => /\ result.ok <=> (/\ 0 < provenance.threshold
                         /\ provenance.threshold <= provenance.total_shares
                         /\ provenance.total_shares <= 255)
       /\ (\/ provenance.threshold = 0
           \/ provenance.total_shares = 0
           \/ provenance.threshold > provenance.total_shares)
            => /\ ~result.ok
               /\ result.kind = "ShamirError"
               /\ artifact.kind = "NoShares"

\* C12: a successful split_secret(m, k, n) returns exactly n shares whose
\* share_id values are 1, 2, ..., n in that order, each with threshold k,
\* total_shares n and version 1.
C12_EmittedShareHeaders ==
    (call.op = "split_secret" /\ result.ok)
    => /\ Len(result.val) = provenance.total_shares
       /\ \A i \in 1..Len(result.val) :
            /\ result.val[i].share_id = i
            /\ result.val[i].threshold = provenance.threshold
            /\ result.val[i].total_shares = provenance.total_shares
            /\ result.val[i].version = 1

C12_Witness ==
    /\ call.op = "split_secret" /\ result.ok
    /\ provenance.threshold = 2 /\ provenance.total_shares = 3
    /\ Len(provenance.secret) = 2
    /\ Len(result.val) = 3
    /\ result.val[3].share_id = 3

\* The per-byte entries a share carries: (x, value) pairs.
EntriesOf(share) == BincodeDeserialize(B64Decode(share.share_data).val).val

\* C23: in every share emitted by split_secret(m, k, n) the decoded per-byte
\* sequence has as many entries as m has bytes, in the order of the bytes of
\* m (the entries at one position, over the shares, combine to that byte of
\* m), and the x of every entry equals the share's share_id.
C23_ShareEntries ==
    LET Holds(shares, entries, secret) ==
            /\ \A i \in 1..Len(shares) :
                    /\ Len(entries[i]) = Len(secret)
                    /\ \A b \in 1..Len(secret) :
                            entries[i][b][1] = shares[i].share_id
            /\ \A b \in 1..Len(secret) :
                    VsssCombineShares([i \in 1..Len(shares) |-> entries[i][b]])
                        = Ok(secret[b])
    IN
    (call.op = "split_secret" /\ result.ok)
    => Holds(result.val,
             [i \in 1..Len(result.val) |-> EntriesOf(result.val[i])],
             provenance.secret)

C23_Witness ==
    /\ call.op = "split_secret" /\ result.ok
    /\ provenance.secret = <<65, 122>>
    /\ provenance.threshold = 3 /\ provenance.total_shares = 3
    /\ Len(EntriesOf(result.val[3])) = 2
    /\ EntriesOf(result.val[3])[2][1] = 3

\* C25: reconstruct_secret fails with a ShamirError, returning no secret,
\* whenever the decoded per-byte sequences of the supplied shares do not all
\* have the same length, also when the set holds more shares than the
\* threshold and only a surplus share has another length.
C25_UnequalLengthsFail ==
    LET Unequal(decoded) ==
            /\ \A i \in 1..Len(decoded) : decoded[i].ok
            /\ \E i, j \in 1..Len(decoded) :
                    Len(decoded[i].val) # Len(decoded[j].val)
    IN
    (/\ call.op = "reconstruct_secret"
     /\ Unequal([i \in 1..Len(call.shares) |-> DecodeShare(call.shares[i])]))
    => /\ ~result.ok
       /\ result.kind = "ShamirError"
       /\ Len(call.shares) >= call.shares[1].threshold
            => result.msg = "Shares have inconsistent lengths"

C25_Witness ==
    /\ call.op = "reconstruct_secret"
    /\ Len(call.shares) = 3
    /\ call.shares[1].threshold = 2
    /\ Len(EntriesOf(call.shares[1])) = 2
    /\ Len(EntriesOf(call.shares[2])) = 2
    /\ Len(EntriesOf(call.shares[3])) = 1
    /\ ~result.ok /\ result.msg = "Shares have inconsistent lengths"

(***************************************************************************)
(* validate_shares on share sets that need not come from a single split:   *)
(* the set is drawn share by share, each share deviating from a common     *)
(* form in at most one field.                                              *)
(***************************************************************************)
MaxSetLen == 3

\* The share ids drawn from: 0 and 3 lie outside 1..total_shares of the form.
DrawnShareIds == {0, 1, 2, 3}

\* Share data of the drawn shares: one byte position, identifier 1, value 7.
DrawnShareData == B64Encode(BincodeSerialize(<<<<1, <<7>>>>>>))

\* A text that is not base64: its length is not a multiple of four.
NotBase64 == <<0, 1, 2>>

Deviations == {"none", "threshold", "total_shares", "version", "share_data"}

DrawnShare(share_id, deviation) ==
    ShamirShare(share_id,
                IF deviation = "threshold" THEN 3 ELSE 2,
                IF deviation = "total_shares" THEN 3 ELSE 2,
                IF deviation = "share_data" THEN NotBase64 ELSE DrawnShareData,
                IF deviation = "version" THEN 2 ELSE 1)

DrawnShares == {DrawnShare(id, d) : id \in DrawnShareIds, d \in Deviations}

ValidateInit ==
    /\ artifact \in {[kind |-> "ShareSet", shares |-> T] :
                        T \in SeqsUpTo(DrawnShares, MaxSetLen)}
    /\ provenance = None
    /\ call = NoCall
    /\ result = None

DoValidateShares ==
    /\ call = NoCall
    /\ call' = [op |-> "validate_shares", shares |-> artifact.shares]
    /\ result' = ValidateShares(artifact.shares)
    /\ UNCHANGED <<artifact, provenance>>

ValidateNext == DoValidateShares

ValidateSpec == ValidateInit /\ [][ValidateNext]_vars

(***************************************************************************)
(* Properties of validate_shares, checked under ValidateSpec.              *)
(***************************************************************************)
ValidationFailed ==
    /\ ~result.ok
    /\ result.kind = "ShamirError"

\* C6: validate_shares fails on every share set in which some share differs
\* from another in threshold, total_shares or version, wherever it stands.
C6_ParameterMismatchFails ==
    (/\ call.op = "validate_shares"
     /\ \E i, j \in 1..Len(call.shares) :
            \/ call.shares[i].threshold # call.shares[j].threshold
            \/ call.shares[i].total_shares # call.shares[j].total_shares
            \/ call.shares[i].version # call.shares[j].version)
    => ValidationFailed

\* A set of three valid shares with distinct ids whose last differs in version.
C6_Witness ==
    /\ call.op = "validate_shares"
    /\ Len(call.shares) = 3
    /\ call.shares[1] = DrawnShare(1, "none")
    /\ call.shares[2] = DrawnShare(2, "none")
    /\ call.shares[3].version # call.shares[1].version
    /\ result = ShamirErr("Inconsistent share parameters")

\* C7: validate_shares fails on every share set that contains two entries
\* with the same share_id.
C7_DuplicateIdFails ==
    (/\ call.op = "validate_shares"
     /\ \E i, j \in 1..Len(call.shares) :
            i # j /\ call.shares[i].share_id = call.shares[j].share_id)
    => ValidationFailed

\* Valid shares with ids 1, 2, 1: the repeated id is not adjacent to its twin.
C7_Witness ==
    /\ call.op = "validate_shares"
    /\ call.shares = <<DrawnShare(1, "none"), DrawnShare(2, "none"),
                       DrawnShare(1, "none")>>
    /\ result = ShamirErr("Duplicate share IDs detected")

\* C13: validate_shares succeeds only on a non-empty share set in which every
\* share has 1 <= share_id <= total_shares; the empty set and any set that
\* contains a share with share_id 0 or above its total_shares are rejected
\* with a ShamirError.
C13_ShareIdRange ==
    call.op = "validate_shares"
    => /\ result.ok
            => /\ call.shares # <<>>
               /\ \A i \in 1..Len(call.shares) :
                    /\ 1 <= call.shares[i].share_id
                    /\ call.shares[i].share_id <= call.shares[i].total_shares
       /\ (\/ call.shares = <<>>
           \/ \E i \in 1..Len(call.shares) :
                \/ call.shares[i].share_id = 0
                \/ call.shares[i].share_id > call.shares[i].total_shares)
            => ValidationFailed

\* Two shares that agree on everything, the second with id 3 out of 2.
C13_Witness ==
    /\ call.op = "validate_shares"
    /\ call.shares = <<DrawnShare(1, "none"), DrawnShare(3, "none")>>
    /\ result = ShamirErr("Invalid share ID")

\* The share sets validate_shares has nothing against.
WellFormedSet(shares) ==
    /\ shares # <<>>
    /\ \A i, j \in 1..Len(shares) :
            /\ shares[i].version = shares[j].version
            /\ shares[i].threshold = shares[j].threshold
            /\ shares[i].total_shares = shares[j].total_shares
            /\ i # j => shares[i].share_id # shares[j].share_id
    /\ \A i \in 1..Len(shares) :
            /\ shares[i].share_id \in 1..shares[i].total_shares
            /\ B64Decode(shares[i].share_data).ok

\* C30: validate_shares returns ok on every non-empty share set whose shares
\* agree on version, threshold and total_shares, have pairwise distinct
\* share_id values in 1..total_shares and base64-valid share_data; this
\* includes sets with fewer shares than the threshold and sets whose common
\* version is not 1, both of which reconstruct_secret rejects.
C30_ValidateAcceptsWellFormed ==
    (call.op = "validate_shares" /\ WellFormedSet(call.shares))
    => /\ result = Ok(TRUE)
       /\ (\/ call.shares[1].version # 1
           \/ Len(call.shares) < call.shares[1].threshold)
            => ~ReconstructSecret(call.shares).ok

C30_Witness ==
    /\ call.op = "validate_shares"
    /\ WellFormedSet(call.shares)
    /\ Len(call.shares) = 1
    /\ call.shares[1].version = 2
    /\ call.shares[1].threshold = 2
    /\ result = Ok(TRUE)
    /\ ~ReconstructSecret(call.shares).ok

(***************************************************************************)
(* serde_json: texts are sequences of bytes.  to_string writes compact     *)
(* JSON; from_str reads JSON with optional whitespace.  The reader covers  *)
(* objects, strings, integers, null, true and false; arrays and numbers    *)
(* with a fraction or an exponent occur in no text drawn here and are      *)
(* rejected.  Scans are written with bounded search instead of recursion   *)
(* over the text.                                                          *)
(***************************************************************************)
RECURSIVE FlattenRange(_, _, _)
FlattenRange(ss, lo, hi) ==
    IF lo > hi THEN <<>>
    ELSE IF lo = hi THEN ss[lo]
    ELSE LET mid == (lo + hi) \div 2 IN
         FlattenRange(ss, lo, mid) \o FlattenRange(ss, mid + 1, hi)

\* The concatenation of a sequence of sequences.
Flatten(ss) == FlattenRange(ss, 1, Len(ss))

HexDigit(n) == IF n < 10 THEN 48 + n ELSE 87 + n

\* serde_json's escape of one byte of a string.
JsonEscapeByte(c) ==
    CASE c = 34 -> <<92, 34>>
      [] c = 92 -> <<92, 92>>
      [] c = 8  -> <<92, 98>>
      [] c = 9  -> <<92, 116>>
      [] c = 10 -> <<92, 110>>
      [] c = 12 -> <<92, 102>>
      [] c = 13 -> <<92, 114>>
      [] c < 32 /\ c \notin {8, 9, 10, 12, 13} ->
            <<92, 117, 48, 48, HexDigit(c \div 16), HexDigit(c % 16)>>
      [] OTHER -> <<c>>

\* A writer that copies the bytes of a string without escaping them.
JsonEscapeNone(str) == str

JsonEscape(str) == Flatten([i \in 1..Len(str) |-> JsonEscapeByte(str[i])])

JsonString(str) == <<34>> \o JsonEscape(str) \o <<34>>

RECURSIVE JsonNumber(_)
JsonNumber(n) ==
    IF n < 10 THEN <<48 + n>> ELSE JsonNumber(n \div 10) \o <<48 + (n % 10)>>

\* null
JsonNull == <<110, 117, 108, 108>>

\* members: a sequence of <<name, text of the value>>, written in order.
JsonObject(members) ==
    <<123>>
    \o Flatten([i \in 1..Len(members) |->
                  (IF i = 1 THEN <<>> ELSE <<44>>)
                  \o JsonString(members[i][1]) \o <<58>> \o members[i][2]])
    \o <<125>>

JErr == [ok |-> FALSE]

JOk(t, v, next) == [ok |-> TRUE, t |-> t, val |-> v, next |-> next]

\* The byte at position i, or -1 outside the text.
At(b, i) == IF i >= 1 /\ i <= Len(b) THEN b[i] ELSE -1

IsDigit(c) == c >= 48 /\ c <= 57

IsHex(c) == IsDigit(c) \/ (c >= 97 /\ c <= 102) \/ (c >= 65 /\ c <= 70)

HexValue(c) == IF IsDigit(c) THEN c - 48 ELSE IF c >= 97 THEN c - 87 ELSE c - 55

SkipWs(b, i) ==
    Least(i, Len(b) + 1, [j \in i..(Len(b) + 1) |-> At(b, j) \notin {32, 9, 10, 13}])

\* The number of backslashes directly before position j, from lo on.
BackslashRun(b, lo, j) ==
    Least(0, j - lo, [r \in 0..(j - lo) |-> r = j - lo \/ b[j - 1 - r] # 92])

\* The UTF-8 bytes of a code point below 0x10000 that is no surrogate.
Utf8Encode(cp) ==
    IF cp < 128 THEN <<cp>>
    ELSE IF cp < 2048 THEN <<192 + (cp \div 64), 128 + (cp % 64)>>
    ELSE <<224 + (cp \div 4096), 128 + ((cp \div 64) % 64), 128 + (cp % 64)>>

\* The string whose opening quote stands at position i.
JsonStringToken(b, i) ==
    LET lo == i + 1
        n  == Len(b)
        Closing(j) == j = n + 1 \/ (b[j] = 34 /\ BackslashRun(b, lo, j) % 2 = 0)
        EscStart(k) == b[k] = 92 /\ BackslashRun(b, lo, k) % 2 = 0
        IsU(k) == EscStart(k) /\ At(b, k + 1) = 117
        Covered(k) ==
            \/ k > lo /\ EscStart(k - 1)
            \/ \E d \in 2..5 : k - d >= lo /\ IsU(k - d)
        CodePoint(k) == HexValue(b[k + 2]) * 4096 + HexValue(b[k + 3]) * 256
                        + HexValue(b[k + 4]) * 16 + HexValue(b[k + 5])
        GoodEscape(k, hi) ==
            \/ At(b, k + 1) \in {34, 92, 47, 98, 102, 110, 114, 116}
            \/ /\ At(b, k + 1) = 117
               /\ k + 5 <= hi
               /\ \A d \in 2..5 : IsHex(b[k + d])
               /\ CodePoint(k) \notin 55296..57343
        Unescaped(e, k) ==
            CASE e = 98  -> <<8>>
              [] e = 102 -> <<12>>
              [] e = 110 -> <<10>>
              [] e = 114 -> <<13>>
              [] e = 116 -> <<9>>
              [] e = 117 -> Utf8Encode(CodePoint(k))
              [] OTHER   -> <<e>>
        Piece(k) == IF Covered(k) THEN <<>>
                    ELSE IF EscStart(k) THEN Unescaped(b[k + 1], k)
                    ELSE <<b[k]>>
        \* close: the position of the closing quote, n + 1 if there is none.
        Token(close) ==
            IF close = n + 1 THEN JErr
            ELSE IF \E k \in lo..(close - 1) :
                       \/ EscStart(k) /\ ~GoodEscape(k, close - 1)
                       \/ ~Covered(k) /\ ~EscStart(k) /\ b[k] < 32
            THEN JErr
            ELSE JOk("str", Flatten([k \in 1..(close - lo) |-> Piece(lo + k - 1)]),
                     close + 1)
    IN  Token(Least(lo, n + 1, [j \in lo..(n + 1) |-> Closing(j)]))

\* The integer at position i; a value outside 0..255 is read as -1.
JsonNumberToken(b, i) ==
    LET neg   == At(b, i) = 45
        first == IF neg THEN i + 1 ELSE i
        Digit(k) == b[first + k - 1] - 48
        Value(len) ==
            CASE len = 1 -> Digit(1)
              [] len = 2 -> Digit(1) * 10 + Digit(2)
              [] len = 3 -> Digit(1) * 100 + Digit(2) * 10 + Digit(3)
        InU8(v) == IF v > 255 THEN -1 ELSE v
        \* stop: the position after the last digit.
        Token(stop) ==
            IF stop = first THEN JErr
            ELSE IF stop - first > 1 /\ b[first] = 48 THEN JErr
            ELSE IF At(b, stop) \in {46, 101, 69} THEN JErr
            ELSE IF neg \/ stop - first > 3 THEN JOk("num", -1, stop)
            ELSE JOk("num", InU8(Value(stop - first)), stop)
    IN  Token(Least(first, Len(b) + 1,
                    [j \in first..(Len(b) + 1) |-> ~IsDigit(At(b, j))]))

IsLiteral(b, i, word) ==
    \A k \in 1..Len(word) : At(b, i + k - 1) = word[k]

RECURSIVE JsonValue(_, _)
RECURSIVE JsonMembers(_, _, _)
\* The value that starts at or after position i0.
JsonValue(b, i0) ==
    LET Object(j) ==
            IF At(b, j) = 125 THEN JOk("obj", <<>>, j + 1)
            ELSE JsonMembers(b, j, <<>>)
        \* i: the position of the first byte of the value.
        Value(i) ==
            IF At(b, i) = 34 THEN JsonStringToken(b, i)
            ELSE IF At(b, i) = 123 THEN Object(SkipWs(b, i + 1))
            ELSE IF IsLiteral(b, i, JsonNull) THEN JOk("null", 0, i + 4)
            ELSE IF IsLiteral(b, i, <<116, 114, 117, 101>>) THEN JOk("bool", 1, i + 4)
            ELSE IF IsLiteral(b, i, <<102, 97, 108, 115, 101>>) THEN JOk("bool", 0, i + 5)
            ELSE IF At(b, i) = 45 \/ IsDigit(At(b, i)) THEN JsonNumberToken(b, i)
            ELSE JErr
    IN  Value(SkipWs(b, i0))

\* The members of an object from the key at position i on.
JsonMembers(b, i, acc) ==
    LET \* e: the position of the first byte after the member's value.
        Rest(e, acc2) ==
            IF At(b, e) = 125 THEN JOk("obj", acc2, e + 1)
            ELSE IF At(b, e) = 44 THEN JsonMembers(b, SkipWs(b, e + 1), acc2)
            ELSE JErr
        Member(key, v) ==
            IF ~v.ok THEN JErr
            ELSE Rest(SkipWs(b, v.next),
                      Append(acc, [key |-> key.val, t |-> v.t, val |-> v.val]))
        Colon(key, colon) ==
            IF At(b, colon) # 58 THEN JErr
            ELSE Member(key, JsonValue(b, colon + 1))
        Key(key) ==
            IF ~key.ok THEN JErr ELSE Colon(key, SkipWs(b, key.next))
    IN  IF At(b, i) # 34 THEN JErr ELSE Key(JsonStringToken(b, i))

\* serde_json::from_str up to the typed reading: one value, then only space.
JsonFromStr(b) ==
    LET Whole(v) ==
            IF ~v.ok THEN JErr
            ELSE IF SkipWs(b, v.next) # Len(b) + 1 THEN JErr
            ELSE v
    IN  Whole(JsonValue(b, 1))

(***************************************************************************)
(* derive(Deserialize) on a struct: fields are looked up by name, unknown  *)
(* fields are skipped, a repeated or missing field is an error, a missing  *)
(* Option field is None.                                                   *)
(***************************************************************************)
FieldOf(v, name) ==
    LET idx == {m \in 1..Len(v.val) : v.val[m].key = name} IN
    IF Cardinality(idx) > 1 THEN [st |-> "duplicate"]
    ELSE IF idx = {} THEN [st |-> "missing"]
    ELSE LET m == CHOOSE m \in idx : TRUE IN
         [st |-> "present", t |-> v.val[m].t, val |-> v.val[m].val]

U8Of(f) ==
    IF f.st = "present" /\ f.t = "num" /\ f.val >= 0 THEN Ok(f.val) ELSE JErr

StringOf(f) ==
    IF f.st = "present" /\ f.t = "str" THEN Ok(f.val) ELSE JErr

\* Option<String>
OptionStringOf(f) ==
    IF f.st = "missing" THEN Ok(None)
    ELSE IF f.st = "duplicate" THEN JErr
    ELSE IF f.t = "null" THEN Ok(None)
    ELSE IF f.t = "str" THEN Ok(Some(f.val))
    ELSE JErr

(***************************************************************************)
(* The envelopes as JSON.  The texts of nonce, salt, ciphertext and        *)
(* share_data are kept as base64 symbols: 0..63 for the alphabet, 64 for   *)
(* '=', and 65 + c for a byte c outside the alphabet.                      *)
(***************************************************************************)
SymbolChar(sym) ==
    IF sym < 26 THEN 65 + sym
    ELSE IF sym < 52 THEN 71 + sym
    ELSE IF sym < 62 THEN sym - 4
    ELSE IF sym = 62 THEN 43
    ELSE IF sym = 63 THEN 47
    ELSE IF sym = 64 THEN 61
    ELSE sym - 65

CharSymbol(c) ==
    IF c >= 65 /\ c <= 90 THEN c - 65
    ELSE IF c >= 97 /\ c <= 122 THEN c - 71
    ELSE IF IsDigit(c) THEN c + 4
    ELSE IF c = 43 THEN 62
    ELSE IF c = 47 THEN 63
    ELSE IF c = 61 THEN 64
    ELSE c + 65

SymbolText(symbols) == [i \in 1..Len(symbols) |-> SymbolChar(symbols[i])]

TextSymbols(text) == [i \in 1..Len(text) |-> CharSymbol(text[i])]

\* The field names of the structs, as the bytes serde writes.
FieldName ==
    [nonce        |-> <<110, 111, 110, 99, 101>>,
     salt         |-> <<115, 97, 108, 116>>,
     ciphertext   |-> <<99, 105, 112, 104, 101, 114, 116, 101, 120, 116>>,
     version      |-> <<118, 101, 114, 115, 105, 111, 110>>,
     decoy_layer  |-> <<100, 101, 99, 111, 121, 95, 108, 97, 121, 101, 114>>,
     hidden_layer |-> <<104, 105, 100, 100, 101, 110, 95, 108, 97, 121, 101, 114>>,
     decoy_hint   |-> <<100, 101, 99, 111, 121, 95, 104, 105, 110, 116>>,
     share_id     |-> <<115, 104, 97, 114, 101, 95, 105, 100>>,
     threshold    |-> <<116, 104, 114, 101, 115, 104, 111, 108, 100>>,
     total_shares |-> <<116, 111, 116, 97, 108, 95, 115, 104, 97, 114, 101, 115>>,
     share_data   |-> <<115, 104, 97, 114, 101, 95, 100, 97, 116, 97>>,
     data_type    |-> <<100, 97, 116, 97, 95, 116, 121, 112, 101>>,
     content      |-> <<99, 111, 110, 116, 101, 110, 116>>]

\* enum QRDataType: a unit variant is written as its name.
QRDataTypeName ==
    [EncryptedSecret |-> <<69, 110, 99, 114, 121, 112, 116, 101, 100, 83, 101, 99, 114, 101, 116>>,
     ShamirShare     |-> <<83, 104, 97, 109, 105, 114, 83, 104, 97, 114, 101>>,
     LayeredSecret   |-> <<76, 97, 121, 101, 114, 101, 100, 83, 101, 99, 114, 101, 116>>]

QRDataTypes == {"EncryptedSecret", "ShamirShare", "LayeredSecret"}

\* serde_json::to_string(encrypted_data)
EncryptedDataToJson(e) ==
    JsonObject(<<<<FieldName.nonce, JsonString(SymbolText(e.nonce))>>,
                 <<FieldName.salt, JsonString(SymbolText(e.salt))>>,
                 <<FieldName.ciphertext, JsonString(SymbolText(e.ciphertext))>>,
                 <<FieldName.version, JsonNumber(e.version)>>>>)

\* EncryptedData read from a JSON value.
EncryptedDataFromValue(v) ==
    LET Struct(nonce, salt, ciphertext, version) ==
            IF nonce.ok /\ salt.ok /\ ciphertext.ok /\ version.ok
            THEN Ok(EncryptedData(TextSymbols(nonce.val), TextSymbols(salt.val),
                                  TextSymbols(ciphertext.val), version.val))
            ELSE JErr
    IN  IF v.t # "obj" THEN JErr
        ELSE Struct(StringOf(FieldOf(v, FieldName.nonce)),
                    StringOf(FieldOf(v, FieldName.salt)),
                    StringOf(FieldOf(v, FieldName.ciphertext)),
                    U8Of(FieldOf(v, FieldName.version)))

\* serde_json::from_str::<EncryptedData>
EncryptedDataFromStr(text) ==
    LET Typed(v) == IF ~v.ok THEN JErr ELSE EncryptedDataFromValue(v)
    IN  Typed(JsonFromStr(text))

\* serde_json::to_string(share)
ShamirShareToJson(share) ==
    JsonObject(<<<<FieldName.share_id, JsonNumber(share.share_id)>>,
                 <<FieldName.threshold, JsonNumber(share.threshold)>>,
                 <<FieldName.total_shares, JsonNumber(share.total_shares)>>,
                 <<FieldName.share_data, JsonString(SymbolText(share.share_data))>>,
                 <<FieldName.version, JsonNumber(share.version)>>>>)

\* serde_json::from_str::<ShamirShare>
ShamirShareFromStr(text) ==
    LET Struct(share_id, threshold, total_shares, share_data, version) ==
            IF /\ share_id.ok /\ threshold.ok /\ total_shares.ok
               /\ share_data.ok /\ version.ok
            THEN Ok(ShamirShare(share_id.val, threshold.val, total_shares.val,
                                TextSymbols(share_data.val), version.val))
            ELSE JErr
        Typed(v) ==
            IF ~v.ok THEN JErr
            ELSE IF v.t # "obj" THEN JErr
            ELSE Struct(U8Of(FieldOf(v, FieldName.share_id)),
                        U8Of(FieldOf(v, FieldName.threshold)),
                        U8Of(FieldOf(v, FieldName.total_shares)),
                        StringOf(FieldOf(v, FieldName.share_data)),
                        U8Of(FieldOf(v, FieldName.version)))
    IN  Typed(JsonFromStr(text))

\* serde_json::to_string(layered_data)
LayeredDataToJson(l) ==
    JsonObject(<<<<FieldName.decoy_layer, EncryptedDataToJson(l.decoy_layer)>>,
                 <<FieldName.hidden_layer,
                   IF l.hidden_layer = None THEN JsonNull
                   ELSE EncryptedDataToJson(l.hidden_layer.val)>>,
                 <<FieldName.version, JsonNumber(l.version)>>,
                 <<FieldName.decoy_hint,
                   IF l.decoy_hint = None THEN JsonNull
                   ELSE JsonString(l.decoy_hint.val)>>>>)

\* Option<EncryptedData>
OptionEncryptedDataOf(f) ==
    LET Wrapped(e) == IF e.ok THEN Ok(Some(e.val)) ELSE JErr
    IN  IF f.st = "missing" THEN Ok(None)
        ELSE IF f.st = "duplicate" THEN JErr
        ELSE IF f.t = "null" THEN Ok(None)
        ELSE Wrapped(EncryptedDataFromValue(f))

\* serde_json::from_str::<LayeredData>
LayeredDataFromStr(text) ==
    LET Struct(decoy_layer, hidden_layer, version, decoy_hint) ==
            IF decoy_layer.ok /\ hidden_layer.ok /\ version.ok /\ decoy_hint.ok
            THEN Ok(LayeredData(decoy_layer.val, hidden_layer.val, version.val,
                                decoy_hint.val))
            ELSE JErr
        Required(d) == IF d.st = "present" THEN EncryptedDataFromValue(d) ELSE JErr
        Typed(v) ==
            IF ~v.ok THEN JErr
            ELSE IF v.t # "obj" THEN JErr
            ELSE Struct(Required(FieldOf(v, FieldName.decoy_layer)),
                        OptionEncryptedDataOf(FieldOf(v, FieldName.hidden_layer)),
                        U8Of(FieldOf(v, FieldName.version)),
                        OptionStringOf(FieldOf(v, FieldName.decoy_hint)))
    IN  Typed(JsonFromStr(text))

(***************************************************************************)
(* qr.rs: QRData, QRGenerator, QRReader.                                   *)
(***************************************************************************)
QRData(data_type, content) == [data_type |-> data_type, content |-> content]

\* serde_json::to_string(&qr_data)
QRDataToJson(qr_data) ==
    JsonObject(<<<<FieldName.data_type,
                   JsonString(QRDataTypeName[qr_data.data_type])>>,
                 <<FieldName.content, JsonString(qr_data.content)>>>>)

\* The text generate_encrypted_qr hands to create_qr_image.
GenerateEncryptedQr(encrypted_data) ==
    QRDataToJson(QRData("EncryptedSecret", EncryptedDataToJson(encrypted_data)))

\* The text generate_shamir_qr hands to create_qr_image.
GenerateShamirQr(share) ==
    QRDataToJson(QRData("ShamirShare", ShamirShareToJson(share)))

\* The text generate_layered_qr hands to create_qr_image.
GenerateLayeredQr(layered_data) ==
    QRDataToJson(QRData("LayeredSecret", LayeredDataToJson(layered_data)))

QRParsingErr(msg) == Err("QRParsing", msg)

\* QRReader::parse_qr_data
ParseQrData(json_data) ==
    LET Struct(data_type, content) ==
            IF /\ data_type.ok /\ content.ok
               /\ \E dt \in QRDataTypes : QRDataTypeName[dt] = data_type.val
            THEN Ok(QRData(CHOOSE dt \in QRDataTypes :
                               QRDataTypeName[dt] = data_type.val,
                           content.val))
            ELSE QRParsingErr("Failed to parse QR data")
        Typed(v) ==
            IF ~v.ok \/ v.t # "obj" THEN QRParsingErr("Failed to parse QR data")
            ELSE Struct(StringOf(FieldOf(v, FieldName.data_type)),
                        StringOf(FieldOf(v, FieldName.content)))
    IN  Typed(JsonFromStr(json_data))

\* QRReader::parse_encrypted_data
ParseEncryptedData(qr_data) ==
    LET MapErr(e) == IF e.ok THEN e ELSE QRParsingErr("Failed to parse encrypted data")
    IN  IF qr_data.data_type = "EncryptedSecret"
        THEN MapErr(EncryptedDataFromStr(qr_data.content))
        ELSE QRParsingErr("QR code does not contain encrypted data")

\* QRReader::parse_shamir_share
ParseShamirShare(qr_data) ==
    LET MapErr(e) == IF e.ok THEN e ELSE QRParsingErr("Failed to parse Shamir share")
    IN  IF qr_data.data_type = "ShamirShare"
        THEN MapErr(ShamirShareFromStr(qr_data.content))
        ELSE QRParsingErr("QR code does not contain Shamir share data")

\* QRReader::parse_layered_data
ParseLayeredData(qr_data) ==
    LET MapErr(e) == IF e.ok THEN e ELSE QRParsingErr("Failed to parse layered data")
    IN  IF qr_data.data_type = "LayeredSecret"
        THEN MapErr(LayeredDataFromStr(qr_data.content))
        ELSE QRParsingErr("QR code does not contain layered secret data")

(***************************************************************************)
(* The payload of a QR code as a state machine: an envelope produced by    *)
(* encrypt, split_secret or encrypt_with_decoy is written as a payload,    *)
(* the payload is read back with parse_qr_data, and one of the three       *)
(* readers is applied to the result.                                       *)
(***************************************************************************)
\* Decoy hints: none, "h", a quote and a backslash, a line feed and U+00E9.
CodecHints == {None, Some(<<104>>), Some(<<34, 92>>), Some(<<10, 195, 169>>)}

FirstSalt == [i \in 1..SALT_GEN_LEN |-> 7]

FirstNonce == [i \in 1..NONCE_SIZE |-> 0]

CodecEncrypted ==
    {Encrypt(d, <<112>>, s, n).val :
        d \in Plaintexts, s \in GenSalts, n \in GenNonces}

CodecShares ==
    UNION {LET shares == SplitSecret(m, 2, 2, stream).val IN
           {shares[i] : i \in 1..Len(shares)} :
               m \in Secrets, stream \in RngStreams}

CodecLayered ==
    {EncryptWithDecoy(<<65>>, <<113>>, d, <<112>>, hint,
                      FirstSalt, FirstNonce, FirstSalt, FirstNonce).val :
        d \in Plaintexts, hint \in CodecHints}

CodecInit ==
    /\ artifact = None
    /\ provenance = None
    /\ call = NoCall
    /\ result = None

\* The payload text and what it was made from.
Generated(op, data_type, envelope, text) ==
    /\ artifact' = [kind |-> "Payload", text |-> text]
    /\ provenance' = [op |-> op, data_type |-> data_type, envelope |-> envelope]
    /\ call' = [op |-> op]
    /\ UNCHANGED result

DoGenerateEncryptedQr ==
    /\ artifact = None
    /\ \E encrypted_data \in CodecEncrypted :
        Generated("generate_encrypted_qr", "EncryptedSecret", encrypted_data,
                  GenerateEncryptedQr(encrypted_data))

DoGenerateShamirQr ==
    /\ artifact = None
    /\ \E share \in CodecShares :
        Generated("generate_shamir_qr", "ShamirShare", share,
                  GenerateShamirQr(share))

DoGenerateLayeredQr ==
    /\ artifact = None
    /\ \E layered_data \in CodecLayered :
        Generated("generate_layered_qr", "LayeredSecret", layered_data,
                  GenerateLayeredQr(layered_data))

DoParseQrData ==
    /\ artifact.kind = "Payload"
    /\ call.op \in {"generate_encrypted_qr", "generate_shamir_qr",
                    "generate_layered_qr"}
    /\ call' = [op |-> "parse_qr_data"]
    /\ result' = ParseQrData(artifact.text)
    /\ UNCHANGED <<artifact, provenance>>

DoParseEncryptedData ==
    /\ call.op = "parse_qr_data"
    /\ result.ok
    /\ call' = [op |-> "parse_encrypted_data", qr_data |-> result.val]
    /\ result' = ParseEncryptedData(result.val)
    /\ UNCHANGED <<artifact, provenance>>

DoParseShamirShare ==
    /\ call.op = "parse_qr_data"
    /\ result.ok
    /\ call' = [op |-> "parse_shamir_share", qr_data |-> result.val]
    /\ result' = ParseShamirShare(result.val)
    /\ UNCHANGED <<artifact, provenance>>

DoParseLayeredData ==
    /\ call.op = "parse_qr_data"
    /\ result.ok
    /\ call' = [op |-> "parse_layered_data", qr_data |-> result.val]
    /\ result' = ParseLayeredData(result.val)
    /\ UNCHANGED <<artifact, provenance>>

CodecNext ==
    \/ DoGenerateEncryptedQr
    \/ DoGenerateShamirQr
    \/ DoGenerateLayeredQr
    \/ DoParseQrData
    \/ DoParseEncryptedData
    \/ DoParseShamirShare
    \/ DoParseLayeredData

CodecSpec == CodecInit /\ [][CodecNext]_vars

(***************************************************************************)
(* Properties of the payload, checked under CodecSpec.                     *)
(***************************************************************************)
\* The data_type each reader takes.
ReaderKind ==
    [parse_encrypted_data |-> "EncryptedSecret",
     parse_shamir_share   |-> "ShamirShare",
     parse_layered_data   |-> "LayeredSecret"]

\* C8: for each of the three envelope kinds, the payload written for an
\* envelope reads back with the data_type of the envelope's kind; the reader
\* of that kind returns the envelope field for field, and the readers of the
\* two other kinds fail.
C8_PayloadRoundTrip ==
    /\ call.op = "parse_qr_data"
        => result.ok /\ result.val.data_type = provenance.data_type
    /\ call.op \in DOMAIN ReaderKind
        => IF ReaderKind[call.op] = provenance.data_type
           THEN result = Ok(provenance.envelope)
           ELSE ~result.ok /\ result.kind = "QRParsing"

\* A layered envelope whose hint needs escaping came back whole.
C8_Witness ==
    /\ call.op = "parse_layered_data"
    /\ provenance.data_type = "LayeredSecret"
    /\ provenance.envelope.decoy_hint = Some(<<34, 92>>)
    /\ provenance.envelope.hidden_layer # None
    /\ result = Ok(provenance.envelope)

(***************************************************************************)
(* utils.rs and scanner.rs: loading an envelope from a file, a string or   *)
(* a scan.  A file is absent or has a content; a scan is the outcome of    *)
(* scan_from_webcam, a QRData or an error.                                 *)
(***************************************************************************)
IsSpace(c) == c \in {9, 10, 11, 12, 13, 32}

\* str::trim
Trim(b) ==
    LET n == Len(b)
        From(lo) ==
            IF lo = n + 1 THEN <<>>
            ELSE SubSeq(b, lo, n + 1 - Least(1, n, [r \in 1..n |-> ~IsSpace(b[n + 1 - r])]))
    IN  From(Least(1, n + 1, [j \in 1..(n + 1) |-> ~IsSpace(At(b, j))]))

\* utils::read_file_content
ReadFileContent(file) ==
    IF file.exists THEN Ok(Trim(file.content)) ELSE Err("Io", "No such file")

\* utils::load_encrypted_from_data
LoadEncryptedFromData(data) ==
    LET MapErr(e) ==
            IF e.ok THEN e ELSE Err("InvalidInput", "Invalid encrypted data format")
        Loaded(qr_data) ==
            IF qr_data.ok THEN ParseEncryptedData(qr_data.val)
            ELSE MapErr(EncryptedDataFromStr(data))
    IN  Loaded(ParseQrData(data))

\* utils::load_encrypted_from_file
LoadEncryptedFromFile(file) ==
    LET Loaded(content) ==
            IF ~content.ok THEN content ELSE LoadEncryptedFromData(content.val)
    IN  Loaded(ReadFileContent(file))

\* load_layered_from_data is called by main.rs and defined in no source file
\* at hand: the outer envelope is tried first and the inner shape after it.
LoadLayeredFromData(data) ==
    LET MapErr(l) ==
            IF l.ok THEN l ELSE Err("InvalidInput", "Invalid layered data format")
        Loaded(qr_data) ==
            IF qr_data.ok THEN ParseLayeredData(qr_data.val)
            ELSE MapErr(LayeredDataFromStr(data))
    IN  Loaded(ParseQrData(data))

\* load_layered_from_file, as load_layered_from_data.
LoadLayeredFromFile(file) ==
    LET Loaded(content) ==
            IF ~content.ok THEN content ELSE LoadLayeredFromData(content.val)
    IN  Loaded(ReadFileContent(file))

\* QRScanner::scan_encrypted_interactive on the outcome of its scan.
ScanEncryptedInteractive(scan) ==
    IF ~scan.ok THEN scan ELSE ParseEncryptedData(scan.val)

\* QRScanner::scan_layered_interactive on the outcome of its scan.
ScanLayeredInteractive(scan) ==
    IF ~scan.ok THEN scan ELSE ParseLayeredData(scan.val)

(***************************************************************************)
(* main.rs: handle_decrypt and handle_regular_decrypt.  An outcome holds   *)
(* what the handler returned, the decryption it ran (route) and on which   *)
(* envelope (subject), the payload it obtained last, the plaintext it      *)
(* printed or wrote, how many scans it made and whether it asked for the   *)
(* password.                                                               *)
(***************************************************************************)
Outcome(ret, route, payload, subject, output) ==
    [ok |-> ret.ok,
     kind |-> IF ret.ok THEN "Ok" ELSE ret.kind,
     msg |-> IF ret.ok THEN "" ELSE ret.msg,
     route |-> route, payload |-> payload, subject |-> subject,
     output |-> output, scans_made |-> 0, password_read |-> FALSE]

\* One call of scan_from_webcam more was made on the way to the outcome.
ScanMade(outcome) == [outcome EXCEPT !.scans_made = @ + 1]

\* read_password was called on the way to the outcome.
PasswordRead(outcome) == [outcome EXCEPT !.password_read = TRUE]

\* The payload a text holds, if it reads as the outer envelope.
PayloadOfText(text) ==
    LET Held(qr_data) == IF qr_data.ok THEN Some(qr_data.val) ELSE None
    IN  Held(ParseQrData(text))

PayloadOfFile(file) ==
    LET Held(content) == IF content.ok THEN PayloadOfText(content.val) ELSE None
    IN  Held(ReadFileContent(file))

PayloadOfScan(scan) == IF scan.ok THEN Some(scan.val) ELSE None

\* The output step of both handlers: println!, or write_file_content.
Emit(route, payload, subject, output, plaintext) ==
    IF output.to = "file" /\ ~output.writable
    THEN Outcome(Err("Io", "write failed"), route, payload, subject, None)
    ELSE Outcome(Ok(<<>>), route, payload, subject, Some(plaintext))

MustProvide ==
    Err("InvalidInput", "Must provide either input file, data string, or --scan-qr")

\* handle_regular_decrypt; scan is the outcome of the scan it makes.
HandleRegularDecrypt(input, data, scan_qr, output, scan, password) ==
    LET Decrypted(payload, encrypted_data, decrypted_data) ==
            IF ~decrypted_data.ok
            THEN Outcome(decrypted_data, "decrypt", payload, Some(encrypted_data), None)
            ELSE Emit("decrypt", payload, Some(encrypted_data), output,
                      decrypted_data.val)
        Loaded(payload, encrypted_data) ==
            IF ~encrypted_data.ok
            THEN Outcome(encrypted_data, "none", payload, None, None)
            ELSE PasswordRead(Decrypted(payload, encrypted_data.val,
                                        Decrypt(encrypted_data.val, password)))
    IN
    IF scan_qr
    THEN ScanMade(Loaded(PayloadOfScan(scan), ScanEncryptedInteractive(scan)))
    ELSE IF input # None
    THEN Loaded(PayloadOfFile(input.val), LoadEncryptedFromFile(input.val))
    ELSE IF data # None
    THEN Loaded(PayloadOfText(data.val), LoadEncryptedFromData(data.val))
    ELSE Loaded(None, MustProvide)

\* A fall-back that hands the first scan on to handle_regular_decrypt.
FallBackOnFirstScan(input, data, scan_qr, output, scans, password) ==
    HandleRegularDecrypt(input, data, scan_qr, output, scans[1], password)

\* main.rs: the Err(_) arm of the match on scan_layered_interactive, which
\* returns handle_regular_decrypt(input, data, scan_qr, output); that one
\* scans again
FallBackToRegular(input, data, scan_qr, output, scans, password) ==
    HandleRegularDecrypt(input, data, scan_qr, output, scans[2], password)

\* handle_decrypt; scans are the outcomes of the scans it makes, in order.
HandleDecrypt(input, data, scan_qr, output, scans, password) ==
    LET Decrypted(payload, layered_data, decrypted) ==
            IF ~decrypted.ok
            THEN Outcome(Err("Decryption", "Invalid password for layered data"),
                         "decrypt_layered", payload, Some(layered_data), None)
            ELSE Emit("decrypt_layered", payload, Some(layered_data), output,
                      decrypted.val[1])
        Loaded(payload, layered_data) ==
            IF ~layered_data.ok
            THEN Outcome(layered_data, "none", payload, None, None)
            ELSE PasswordRead(Decrypted(payload, layered_data.val,
                                        DecryptLayered(layered_data.val, password)))
        Scanned(layered_data) ==
            IF ~layered_data.ok
            THEN FallBackToRegular(input, data, scan_qr, output, scans, password)
            ELSE Loaded(PayloadOfScan(scans[1]), layered_data)
        Layered ==
            IF scan_qr THEN ScanMade(Scanned(ScanLayeredInteractive(scans[1])))
            ELSE IF input # None
            THEN Loaded(PayloadOfFile(input.val), LoadLayeredFromFile(input.val))
            ELSE IF data # None
            THEN Loaded(PayloadOfText(data.val), LoadLayeredFromData(data.val))
            ELSE Loaded(None, MustProvide)
        is_layered ==
            IF input # None THEN LoadLayeredFromFile(input.val).ok
            ELSE IF data # None THEN LoadLayeredFromData(data.val).ok
            ELSE FALSE
    IN
    IF is_layered \/ scan_qr THEN Layered
    ELSE HandleRegularDecrypt(input, data, scan_qr, output, scans[1], password)

(***************************************************************************)
(* The decrypt command as a state machine: one run of handle_decrypt on    *)
(* an input file, a data string or scans, with the password typed.         *)
(***************************************************************************)
\* "A" under password "p".
HeldEncrypted == Encrypt(<<65>>, <<112>>, FirstSalt, FirstNonce).val

\* Real secret "A" under "q", decoy "z" under "p", hint "h".
HeldLayered ==
    EncryptWithDecoy(<<65>>, <<113>>, <<122>>, <<112>>, Some(<<104>>),
                     FirstSalt, FirstNonce, FirstSalt, FirstNonce).val

\* The first share of "A" split 2 of 2.
HeldShare == SplitSecret(<<65>>, 2, 2, <<83, 0, 202>>).val[1]

Payloads ==
    {GenerateEncryptedQr(HeldEncrypted), GenerateShamirQr(HeldShare),
     GenerateLayeredQr(HeldLayered)}

\* Payloads, inner envelopes written without the outer one, and a text
\* that is no JSON.
InputTexts ==
    Payloads \cup {EncryptedDataToJson(HeldEncrypted),
                   LayeredDataToJson(HeldLayered), <<110, 111>>}

\* Files end with a line feed.
InputFiles ==
    {[exists |-> FALSE]}
    \cup {[exists |-> TRUE, content |-> t \o <<10>>] : t \in InputTexts}

\* What scan_from_webcam returns: the QRData of a payload, or its error.
ScanOutcomes ==
    {ParseQrData(t) : t \in Payloads}
    \cup {QRParsingErr("Invalid QR data or file path")}

NoScans == <<QRParsingErr("no scan"), QRParsingErr("no scan")>>

\* The arguments of the command: at most one of input, data and scan_qr.
Invocations ==
    {[input |-> Some(f), data |-> None, scan_qr |-> FALSE, scans |-> NoScans] :
        f \in InputFiles}
    \cup {[input |-> None, data |-> Some(t), scan_qr |-> FALSE, scans |-> NoScans] :
            t \in InputTexts}
    \cup {[input |-> None, data |-> None, scan_qr |-> TRUE, scans |-> sc] :
            sc \in ScanOutcomes \X ScanOutcomes}
    \cup {[input |-> None, data |-> None, scan_qr |-> FALSE, scans |-> NoScans]}

Outputs ==
    {[to |-> "stdout"], [to |-> "file", writable |-> TRUE],
     [to |-> "file", writable |-> FALSE]}

DispatchInit ==
    /\ artifact = None
    /\ provenance = None
    /\ call = NoCall
    /\ result = None

DoHandleDecrypt ==
    /\ call = NoCall
    /\ \E inv \in Invocations, output \in Outputs, password \in Passwords :
        /\ artifact' = [kind |-> "Invocation", input |-> inv.input,
                        data |-> inv.data, scan_qr |-> inv.scan_qr,
                        scans |-> inv.scans, output |-> output]
        /\ call' = [op |-> "handle_decrypt", password |-> password]
        /\ result' = HandleDecrypt(inv.input, inv.data, inv.scan_qr, output,
                                   inv.scans, password)
    /\ UNCHANGED provenance

DispatchNext == DoHandleDecrypt

DispatchSpec == DispatchInit /\ [][DispatchNext]_vars

(***************************************************************************)
(* Properties of the decrypt command, checked under DispatchSpec.          *)
(***************************************************************************)
\* The routing the payload's data_type calls for.
RoutedByType ==
    /\ result.payload.val.data_type = "LayeredSecret"
        => result.route = "decrypt_layered"
    /\ result.payload.val.data_type = "EncryptedSecret"
        => result.route = "decrypt"
    /\ result.payload.val.data_type = "ShamirShare"
        => ~result.ok /\ result.route = "none" /\ result.output = None

\* C9: on the decrypt path a payload whose data_type is LayeredSecret is
\* decrypted with decrypt_layered, one whose data_type is EncryptedSecret
\* with decrypt, and one whose data_type is ShamirShare is refused with an
\* error and no plaintext is output.
C9_DecryptDispatch ==
    (call.op = "handle_decrypt" /\ result.payload # None) => RoutedByType

\* The same for the runs that obtain their payload at the first read: from
\* a file, from a string, or from a first scan that succeeds.
DispatchOnFirstRead ==
    (/\ call.op = "handle_decrypt"
     /\ result.payload # None
     /\ artifact.scan_qr => (artifact.scans[1].ok
                             /\ artifact.scans[2] = artifact.scans[1]))
    => RoutedByType

\* The first scan failed, or gave a payload that is not a LayeredSecret.
FirstScanNotLayered ==
    \/ ~artifact.scans[1].ok
    \/ artifact.scans[1].val.data_type # "LayeredSecret"

\* C29: in handle_decrypt with scan_qr set, a first scan that failed or whose
\* payload is not a LayeredSecret is discarded: regular decryption works on
\* the payload of a second, separate scan made in handle_regular_decrypt,
\* never on that of the first; and the password is requested only after a
\* payload has been parsed successfully.
C29_SecondScanDecrypted ==
    (call.op = "handle_decrypt" /\ artifact.scan_qr)
    => /\ FirstScanNotLayered
            => /\ result.scans_made = 2
               /\ result.payload = PayloadOfScan(artifact.scans[2])
               /\ result.route # "decrypt_layered"
               /\ result.route = "decrypt"
                    => /\ artifact.scans[2].ok
                       /\ result.subject
                            = Some(ParseEncryptedData(artifact.scans[2].val).val)
               /\ result.route = "decrypt"
                    <=> ScanEncryptedInteractive(artifact.scans[2]).ok
       /\ result.password_read
            => /\ result.subject # None
               /\ result.payload # None
               /\ result.route # "none"
       /\ result.subject = None => ~result.password_read

\* A share was scanned first and an encrypted secret second: the second is
\* decrypted.
C29_Witness ==
    /\ call.op = "handle_decrypt" /\ artifact.scan_qr
    /\ artifact.scans[1].ok
    /\ artifact.scans[1].val.data_type = "ShamirShare"
    /\ artifact.scans[2].ok
    /\ artifact.scans[2].val.data_type = "EncryptedSecret"
    /\ result.scans_made = 2
    /\ result.password_read
    /\ result.ok /\ result.output = Some(<<65>>)

(***************************************************************************)
(* scanner.rs: scan_shares_interactive.  The loop is followed scan by      *)
(* scan: a session holds the shares collected, the scan counter, the       *)
(* limit, and where the function stands: about to scan, waiting for the    *)
(* answer to the continue prompt, or returned.                             *)
(***************************************************************************)
\* scanner.rs: max_scans.unwrap_or(10)
DEFAULT_MAX_SCANS == 10

MaxCount(max_scans) ==
    IF max_scans = None THEN DEFAULT_MAX_SCANS ELSE max_scans.val

ScanSession(shares, scan_count, max_count, at) ==
    [kind |-> "ScanSession", shares |-> shares, scan_count |-> scan_count,
     max_count |-> max_count, at |-> at]

\* A duplicate check that looks at the last collected share only.
AlreadyCollectedLast(shares, share) ==
    shares # <<>> /\ shares[Len(shares)].share_id = share.share_id

\* scanner.rs: shares.iter().any(|s| s.share_id == share.share_id)
AlreadyCollected(shares, share) ==
    \E i \in 1..Len(shares) : shares[i].share_id = share.share_id

\* A stop that waits for one share more than the threshold.
SufficientAbove(shares) ==
    shares # <<>> /\ Len(shares) > shares[1].threshold

\* scanner.rs: shares.len() >= first_share.threshold, the first share being
\* there since one was just pushed
Sufficient(shares) ==
    shares # <<>> /\ Len(shares) >= shares[1].threshold

\* scanner.rs: the condition under which the continue prompt is shown
AsksToContinue(shares) ==
    \/ shares = <<>>
    \/ IF shares # <<>> THEN Len(shares) < shares[1].threshold ELSE TRUE

\* The end of an iteration that neither continued nor broke before it: the
\* check of the scan limit, then the prompt.
EndOfIteration(shares, scan_count, max_count) ==
    IF scan_count >= max_count
    THEN ScanSession(shares, scan_count, max_count, "returned")
    ELSE IF AsksToContinue(shares)
    THEN ScanSession(shares, scan_count, max_count, "prompt")
    ELSE ScanSession(shares, scan_count, max_count, "scan")

\* One iteration of the loop, from scan_count += 1 to the prompt; scan is the
\* outcome of scan_from_webcam.
ScanIteration(session, scan) ==
    LET scan_count == session.scan_count + 1
        max_count  == session.max_count
        Pushed(shares) ==
            IF Sufficient(shares)
            THEN ScanSession(shares, scan_count, max_count, "returned")
            ELSE EndOfIteration(shares, scan_count, max_count)
        Parsed(share) ==
            IF ~share.ok
            THEN EndOfIteration(session.shares, scan_count, max_count)
            ELSE IF AlreadyCollected(session.shares, share.val)
            THEN ScanSession(session.shares, scan_count, max_count, "scan")
            ELSE Pushed(Append(session.shares, share.val))
    IN  IF ~scan.ok
        THEN EndOfIteration(session.shares, scan_count, max_count)
        ELSE Parsed(ParseShamirShare(scan.val))

\* str::to_lowercase on ASCII
ToLowercase(b) ==
    [i \in 1..Len(b) |-> IF b[i] \in 65..90 THEN b[i] + 32 ELSE b[i]]

\* The answer to "Continue scanning? (Y/n)": line is the outcome of read_line.
ContinueAnswer(session, line) ==
    IF ~line.ok THEN [session EXCEPT !.at = "failed"]
    ELSE IF ToLowercase(Trim(line.val)) = <<110>>
    THEN [session EXCEPT !.at = "returned"]
    ELSE [session EXCEPT !.at = "scan"]

\* scanner.rs: what the function returns after the loop
ScanReturn(shares) ==
    IF shares = <<>> THEN QRParsingErr("No valid shares were scanned")
    ELSE Ok(shares)

(***************************************************************************)
(* A share-collection session as a state machine.                          *)
(***************************************************************************)
MaxScanSteps == 4

MaxScansOptions == {None, Some(0), Some(1), Some(2), Some(3)}

\* Shares held up to the camera: ids 1 and 2 of a 2-of-3 and of a 3-of-3
\* split, a share 3 of another version, and a share that gives 0 as threshold.
ScannedShares ==
    {ShamirShare(3, 0, 3, DrawnShareData, 1),
     ShamirShare(1, 2, 3, DrawnShareData, 1),
     ShamirShare(2, 2, 3, DrawnShareData, 1),
     ShamirShare(1, 3, 3, DrawnShareData, 1),
     ShamirShare(2, 3, 3, DrawnShareData, 1),
     ShamirShare(3, 3, 3, DrawnShareData, 2)}

\* Outcomes of scan_from_webcam: a failure, the payload of a share, the
\* payload of an encrypted secret, a share payload whose content is no JSON.
ShareScans ==
    {QRParsingErr("Invalid QR data or file path"),
     Ok(QRData("EncryptedSecret", EncryptedDataToJson(HeldEncrypted))),
     Ok(QRData("ShamirShare", <<110, 111>>))}
    \cup {Ok(QRData("ShamirShare", ShamirShareToJson(share))) :
            share \in ScannedShares}

\* Lines typed at the prompt: "n", " N", an empty line, "no"; or a read error.
AnswerLines ==
    {Ok(<<110, 10>>), Ok(<<32, 78, 10>>), Ok(<<10>>), Ok(<<110, 111, 10>>),
     Err("Io", "read_line")}

ScanInit ==
    /\ artifact \in {ScanSession(<<>>, 0, MaxCount(max_scans), "scan") :
                        max_scans \in MaxScansOptions}
    /\ provenance = [shares |-> <<>>, duplicates |-> 0]
    /\ call = NoCall
    /\ result = None

DoScan ==
    /\ artifact.at = "scan"
    /\ artifact.scan_count < MaxScanSteps
    /\ \E scan \in ShareScans :
        LET Step(after, share) ==
                /\ artifact' = after
                /\ provenance' =
                     [shares |-> artifact.shares,
                      duplicates |->
                        IF share.ok /\ AlreadyCollected(artifact.shares, share.val)
                        THEN provenance.duplicates + 1
                        ELSE provenance.duplicates]
                /\ call' = [op |-> "scan", scan |-> scan, share |-> share]
                /\ result' = IF after.at = "returned"
                             THEN ScanReturn(after.shares) ELSE None
        IN  Step(ScanIteration(artifact, scan),
                 IF scan.ok THEN ParseShamirShare(scan.val) ELSE scan)

DoAnswer ==
    /\ artifact.at = "prompt"
    /\ \E line \in AnswerLines :
        LET Step(after) ==
                /\ artifact' = after
                /\ provenance' = [provenance EXCEPT !.shares = artifact.shares]
                /\ call' = [op |-> "answer", line |-> line]
                /\ result' = IF after.at = "returned" THEN ScanReturn(after.shares)
                             ELSE IF after.at = "failed" THEN line
                             ELSE None
        IN  Step(ContinueAnswer(artifact, line))

ScanNext ==
    \/ DoScan
    \/ DoAnswer

ScanSpec == ScanInit /\ [][ScanNext]_vars

(***************************************************************************)
(* Properties of a share-collection session, checked under ScanSpec.       *)
(***************************************************************************)
\* C14: scan_shares_interactive performs at most max_scans scan attempts (10
\* when max_scans is not given), whatever the scan outcomes and the answers.
C14_ScanLimit == artifact.scan_count <= artifact.max_count

\* The limit holds as long as the limit is not 0 and no scan was a duplicate.
ScanLimitWithoutDuplicates ==
    (artifact.max_count >= 1 /\ provenance.duplicates = 0)
    => artifact.scan_count <= artifact.max_count

\* The scan of the last step gave a share.
ScannedAShare == call.op = "scan" /\ call.share.ok

\* C19: a scanned share whose share_id is already in the collected set, or
\* whose threshold, total_shares or version differ from those of the
\* collected set, leaves the collected set as it was.
C19_RejectedShareLeavesSet ==
    (/\ ScannedAShare
     /\ provenance.shares # <<>>
     /\ \/ AlreadyCollected(provenance.shares, call.share.val)
        \/ ParamsDiffer(call.share.val, provenance.shares[1]))
    => artifact.shares = provenance.shares

\* The part of it about a repeated share_id.
DuplicateLeavesSet ==
    (ScannedAShare /\ AlreadyCollected(provenance.shares, call.share.val))
    => artifact.shares = provenance.shares

\* C20: as soon as the number of collected shares reaches the threshold the
\* function has returned the shares collected so far: no scan follows and no
\* continue prompt is shown.
C20_StopsWhenSufficient ==
    (artifact.shares # <<>> /\ Len(artifact.shares) >= artifact.shares[1].threshold)
    => /\ artifact.at = "returned"
       /\ call.op = "scan"
       /\ result = Ok(artifact.shares)
       /\ ~ENABLED ScanNext

\* What holds of the collected shares at every point of the function: their
\* share_id values are pairwise distinct, and there are at most
\* max(1, threshold of the first collected share) of them.
CollectedWithinThreshold(shares) ==
    /\ IsInjective([i \in 1..Len(shares) |-> shares[i].share_id])
    /\ shares # <<>>
        => Len(shares) <= (IF shares[1].threshold > 1 THEN shares[1].threshold ELSE 1)

\* The function is over: it returned after the loop, or left through the ?
\* on the prompt's read_line.
ScanIsOver == artifact.at \in {"returned", "failed"}

\* C27: at every point of scan_shares_interactive the collected shares have
\* pairwise distinct share_id values and are at most max(1, threshold of the
\* first collected share); the function returns an error if and only if no
\* share was collected, so it can return ok with fewer shares than the
\* threshold.
C27_ErrorIffNothingCollected ==
    /\ CollectedWithinThreshold(artifact.shares)
    /\ ScanIsOver => (~result.ok <=> artifact.shares = <<>>)

\* C27 as the code has it: the function also returns an error, whatever was
\* collected, when reading the answer to the continue prompt fails; every
\* other return gives the collected shares, or the no-shares error when
\* there are none.
C27_ErrorIffNothingCollectedOrPromptFailed ==
    /\ CollectedWithinThreshold(artifact.shares)
    /\ ScanIsOver
        => /\ ~result.ok <=> (artifact.shares = <<>> \/ artifact.at = "failed")
           /\ result.ok => result.val = artifact.shares
           /\ artifact.at = "failed" => result.kind = "Io"
           /\ (artifact.at = "returned" /\ artifact.shares = <<>>)
                => result = QRParsingErr("No valid shares were scanned")

\* The function returned two shares of a 3-of-3 split after the answer "n".
C27_Witness ==
    /\ call.op = "answer"
    /\ artifact.at = "returned"
    /\ Len(artifact.shares) = 2
    /\ artifact.shares[1].threshold = 3
    /\ artifact.shares[1].share_id # artifact.shares[2].share_id
    /\ result = Ok(artifact.shares)

\* The second share of a 2-of-3 split just came in, after a failed scan.
C20_Witness ==
    /\ call.op = "scan" /\ call.share.ok
    /\ Len(artifact.shares) = 2
    /\ artifact.shares[1].threshold = 2
    /\ Len(provenance.shares) = 1
    /\ artifact.scan_count = 3
    /\ artifact.scan_count < artifact.max_count
    /\ result = Ok(artifact.shares)

(***************************************************************************)
(* main.rs and qr.rs: the commands that produce QR images.  An image is    *)
(* taken for the text it encodes, the argument of                          *)
(* QrCode::with_error_correction_level in create_qr_image and              *)
(* generate_card_qr.  What a handler did is the value it returned, the     *)
(* kind of the envelopes it made, the envelopes, and the images it saved.  *)
(***************************************************************************)
Produced(ret, data_type, envelopes, images) ==
    [ret |-> ret, data_type |-> data_type, envelopes |-> envelopes,
     images |-> images]

Refused(ret) == Produced(ret, "none", <<>>, <<>>)

InvalidInput(msg) == Err("InvalidInput", msg)

\* text.trim().is_empty()
IsBlank(text) == Trim(text) = <<>>

\* QRGenerator::save_encrypted_qr: the image of generate_encrypted_qr
SaveEncryptedQr(encrypted_data) == GenerateEncryptedQr(encrypted_data)

\* QRGenerator::save_layered_qr: the image of generate_layered_qr
SaveLayeredQr(layered_data) == GenerateLayeredQr(layered_data)

\* QRGenerator::save_card_qr: generate_card_qr encodes the content it is given
SaveCardQr(content) == content

\* QRGenerator::save_shamir_qrs: one image per share
SaveShamirQrs(shares) ==
    [i \in 1..Len(shares) |-> GenerateShamirQr(shares[i])]

\* QRGenerator::save_shamir_card_qrs: builds the outer envelope itself
SaveShamirCardQrs(shares) ==
    [i \in 1..Len(shares) |->
        SaveCardQr(QRDataToJson(QRData("ShamirShare",
                                       ShamirShareToJson(shares[i]))))]

\* main.rs, handle_encrypt with --card: the JSON of the EncryptedData goes to
\* save_card_qr
EncryptCardImage(encrypted_data) ==
    SaveCardQr(EncryptedDataToJson(encrypted_data))

\* handle_encrypt; word_check is how the seed-phrase validation ended:
\* "skipped", "passed", "confirmed" (failed, the user continues) or "refused".
HandleEncrypt(secret_text, word_check, password, card, salt, nonce_bytes) ==
    LET Saved(encrypted_data) ==
            IF ~encrypted_data.ok THEN Refused(encrypted_data)
            ELSE Produced(Ok(TRUE), "EncryptedSecret", <<encrypted_data.val>>,
                          <<IF card THEN EncryptCardImage(encrypted_data.val)
                            ELSE SaveEncryptedQr(encrypted_data.val)>>)
    IN  IF IsBlank(secret_text)
        THEN Refused(InvalidInput("Secret cannot be empty"))
        ELSE IF word_check = "refused"
        THEN Refused(InvalidInput("Seed phrase validation failed"))
        ELSE IF IsBlank(password)
        THEN Refused(InvalidInput("Password cannot be empty"))
        ELSE Saved(Encrypt(secret_text, password, salt, nonce_bytes))

\* handle_split; a failed seed-phrase validation ends the command.
HandleSplit(threshold, total, secret_text, word_check, card, stream) ==
    LET Saved(shares) ==
            IF ~shares.ok THEN Refused(shares)
            ELSE Produced(Ok(TRUE), "ShamirShare", shares.val,
                          IF card THEN SaveShamirCardQrs(shares.val)
                          ELSE SaveShamirQrs(shares.val))
    IN  IF IsBlank(secret_text)
        THEN Refused(InvalidInput("Secret cannot be empty"))
        ELSE IF word_check \in {"confirmed", "refused"}
        THEN Refused(InvalidInput("validate_seed_phrase"))
        ELSE Saved(SplitSecret(secret_text, threshold, total, stream))

\* handle_decoy_encrypt; draws are the four draws of encrypt_with_decoy.
HandleDecoyEncrypt(real_secret_text, word_check, decoy_secret_text, real_password, decoy_password, decoy_hint, draws) ==
    LET Saved(layered_data) ==
            IF ~layered_data.ok THEN Refused(layered_data)
            ELSE Produced(Ok(TRUE), "LayeredSecret", <<layered_data.val>>,
                          <<SaveLayeredQr(layered_data.val)>>)
    IN  IF IsBlank(real_secret_text)
        THEN Refused(InvalidInput("Real secret cannot be empty"))
        ELSE IF word_check = "refused"
        THEN Refused(InvalidInput("Real seed phrase validation failed"))
        ELSE IF IsBlank(decoy_secret_text)
        THEN Refused(InvalidInput("Decoy secret cannot be empty"))
        ELSE IF IsBlank(real_password)
        THEN Refused(InvalidInput("Real password cannot be empty"))
        ELSE IF IsBlank(decoy_password)
        THEN Refused(InvalidInput("Decoy password cannot be empty"))
        ELSE Saved(EncryptWithDecoy(real_secret_text, real_password,
                                    decoy_secret_text, decoy_password,
                                    decoy_hint, draws[1], draws[2],
                                    draws[3], draws[4]))

\* scanner.rs, decode_qr_from_image: the content decoded from the image goes
\* to parse_qr_data
DecodeQrFromImage(image) == ParseQrData(image)

\* The JSON of an envelope of the kind data_type.
InnerJson(data_type, envelope) ==
    CASE data_type = "EncryptedSecret" -> EncryptedDataToJson(envelope)
      [] data_type = "ShamirShare"     -> ShamirShareToJson(envelope)
      [] data_type = "LayeredSecret"   -> LayeredDataToJson(envelope)

(***************************************************************************)
(* The producing commands as a state machine: a command saves its images,  *)
(* and an image is read back.                                              *)
(***************************************************************************)
\* Secrets typed or read: empty, blank, "A", "Az".
TypedSecrets == {<<>>, <<32>>, <<65>>, <<65, 122>>}

WordChecks == {"skipped", "passed", "confirmed", "refused"}

LayerDraws == {<<FirstSalt, FirstNonce, FirstSalt, FirstNonce>>}

ProduceInit ==
    /\ artifact = None
    /\ provenance = None
    /\ call = NoCall
    /\ result = None

\* The state after a producing command that did done.
Commanded(command, card, done) ==
    /\ call' = [op |-> command, card |-> card]
    /\ result' = done.ret
    /\ artifact' = [kind |-> "Images", images |-> done.images]
    /\ provenance' = [command |-> command, card |-> card,
                      data_type |-> done.data_type,
                      envelopes |-> done.envelopes]

DoHandleEncrypt ==
    /\ artifact = None
    /\ \E secret_text \in TypedSecrets, word_check \in WordChecks,
          password \in Passwords, card \in BOOLEAN, nonce_bytes \in GenNonces :
        Commanded("handle_encrypt", card,
                  HandleEncrypt(secret_text, word_check, password, card,
                                FirstSalt, nonce_bytes))

DoHandleSplit ==
    /\ artifact = None
    /\ \E threshold \in 0..MaxShares, total \in 0..MaxShares,
          secret_text \in TypedSecrets, word_check \in WordChecks,
          card \in BOOLEAN :
        Commanded("handle_split", card,
                  HandleSplit(threshold, total, secret_text, word_check, card,
                              <<83, 0, 202>>))

DoHandleDecoyEncrypt ==
    /\ artifact = None
    /\ \E real_secret_text \in TypedSecrets, word_check \in WordChecks,
          decoy_secret_text \in {<<>>, <<122>>},
          real_password \in Passwords, decoy_password \in Passwords,
          decoy_hint \in CodecHints, draws \in LayerDraws :
        Commanded("handle_decoy_encrypt", FALSE,
                  HandleDecoyEncrypt(real_secret_text, word_check,
                                     decoy_secret_text, real_password,
                                     decoy_password, decoy_hint, draws))

DoReadBack ==
    /\ artifact.kind = "Images"
    /\ call.op # "read_back"
    /\ \E i \in 1..Len(artifact.images) :
        /\ call' = [op |-> "read_back", image |-> i]
        /\ result' = DecodeQrFromImage(artifact.images[i])
    /\ UNCHANGED <<artifact, provenance>>

ProduceNext ==
    \/ DoHandleEncrypt
    \/ DoHandleSplit
    \/ DoHandleDecoyEncrypt
    \/ DoReadBack

ProduceSpec == ProduceInit /\ [][ProduceNext]_vars

(***************************************************************************)
(* Properties of the producing commands, checked under ProduceSpec.        *)
(***************************************************************************)
\* The image read back is the outer envelope of the envelope it was made for.
ReadsBackEnveloped ==
    /\ result.ok
    /\ result.val = QRData(provenance.data_type,
                           InnerJson(provenance.data_type,
                                     provenance.envelopes[call.image]))

\* C15: every QR image produced by a producing command (encrypt, encrypt with
\* card mode, split, split with card mode, decoy-encrypt) encodes the outer
\* envelope {data_type, content}, data_type naming the kind of the inner
\* envelope in content: read back, it is accepted by parse_qr_data.
C15_ImagesCarryOuterEnvelope ==
    call.op = "read_back" => ReadsBackEnveloped

\* The same for every command but encrypt with card mode.
ImagesCarryOuterEnvelopeButEncryptCard ==
    (/\ call.op = "read_back"
     /\ ~(provenance.command = "handle_encrypt" /\ provenance.card))
    => ReadsBackEnveloped

(***************************************************************************)
(* utils.rs: load_shares_from_files and load_shares_from_data; main.rs:    *)
(* handle_reconstruct.  An outcome holds what the handler returned, the    *)
(* share set it loaded, what reconstruct_secret returned if it was called, *)
(* and the secret it printed or wrote.                                     *)
(***************************************************************************)
\* utils.rs: the body of the loop of load_shares_from_data and, with another
\* message, of load_shares_from_files
LoadShare(data, msg) ==
    LET MapErr(e) == IF e.ok THEN e ELSE Err("InvalidInput", msg)
        Loaded(qr_data) ==
            IF qr_data.ok THEN ParseShamirShare(qr_data.val)
            ELSE MapErr(ShamirShareFromStr(data))
    IN  Loaded(ParseQrData(data))

\* The collect of a sequence of results: the first error, or all the values.
Collected(loaded) ==
    IF \E i \in 1..Len(loaded) : ~loaded[i].ok
    THEN loaded[Least(1, Len(loaded), [i \in 1..Len(loaded) |-> ~loaded[i].ok])]
    ELSE Ok([i \in 1..Len(loaded) |-> loaded[i].val])

\* utils::load_shares_from_data
LoadSharesFromData(data_strings) ==
    Collected([i \in 1..Len(data_strings) |->
                  LoadShare(data_strings[i], "Invalid share data format")])

\* utils::load_shares_from_files
LoadSharesFromFiles(file_paths) ==
    LET Read(content) ==
            IF ~content.ok THEN content
            ELSE LoadShare(content.val, "Invalid share file format")
    IN  Collected([i \in 1..Len(file_paths) |->
                      Read(ReadFileContent(file_paths[i]))])

\* QRScanner::scan_shares_interactive run to its end on the codes held up to
\* the camera, in order: the user presses enter at the prompt as long as there
\* are codes left and answers "n" after the last one; the camera gives
\* nothing once the codes are exhausted.
RECURSIVE RunScans(_, _)
RunScans(session, scans) ==
    IF session.at = "returned" THEN ScanReturn(session.shares)
    ELSE IF session.at = "failed" THEN Err("Io", "read_line")
    ELSE IF session.at = "prompt"
    THEN RunScans(ContinueAnswer(session, IF scans = <<>> THEN Ok(<<110, 10>>)
                                           ELSE Ok(<<10>>)),
                  scans)
    ELSE IF scans = <<>>
    THEN RunScans(ScanIteration(session, QRParsingErr("Invalid QR data or file path")),
                  <<>>)
    ELSE RunScans(ScanIteration(session, Head(scans)), Tail(scans))

ScanSharesInteractive(max_scans, scans) ==
    RunScans(ScanSession(<<>>, 0, MaxCount(max_scans), "scan"), scans)

ReconstructOutcome(ret, share_data, reconstructed, output) ==
    [ok |-> ret.ok,
     kind |-> IF ret.ok THEN "Ok" ELSE ret.kind,
     msg |-> IF ret.ok THEN "" ELSE ret.msg,
     share_data |-> share_data, reconstructed |-> reconstructed,
     output |-> output]

\* A validation step that lets every share set through.
ValidateSkipped(share_data) == Ok(TRUE)

\* main.rs: ShamirSecretSharing::validate_shares(&share_data)?
ValidateLoaded(share_data) == ValidateShares(share_data)

\* handle_reconstruct; scans are the codes held up to the camera with scan_qr.
HandleReconstruct(shares, data, scan_qr, max_scans, output, scans) ==
    LET Reconstructed(share_data, reconstructed_secret) ==
            IF ~reconstructed_secret.ok
            THEN ReconstructOutcome(reconstructed_secret, Some(share_data),
                                    Some(reconstructed_secret), None)
            ELSE IF output.to = "file" /\ ~output.writable
            THEN ReconstructOutcome(Err("Io", "write failed"), Some(share_data),
                                    Some(reconstructed_secret), None)
            ELSE ReconstructOutcome(Ok(<<>>), Some(share_data),
                                    Some(reconstructed_secret),
                                    Some(reconstructed_secret.val))
        Validated(share_data, valid) ==
            IF ~valid.ok
            THEN ReconstructOutcome(valid, Some(share_data), None, None)
            ELSE Reconstructed(share_data, ReconstructSecret(share_data))
        Loaded(share_data) ==
            IF ~share_data.ok
            THEN ReconstructOutcome(share_data, None, None, None)
            ELSE Validated(share_data.val, ValidateLoaded(share_data.val))
    IN
    IF scan_qr THEN Loaded(ScanSharesInteractive(max_scans, scans))
    ELSE IF shares # <<>> THEN Loaded(LoadSharesFromFiles(shares))
    ELSE IF data # <<>> THEN Loaded(LoadSharesFromData(data))
    ELSE ReconstructOutcome(Err("InvalidInput", "No share data provided"),
                            None, None, None)

(***************************************************************************)
(* The reconstruct command as a state machine: one run of                  *)
(* handle_reconstruct on share files, data strings or scanned codes.       *)
(***************************************************************************)
MaxSources == 3

\* The three shares of "A" split 2 of 3, each giving 2 as total_shares: the
\* third has an id above the total it gives.
GivenShares ==
    LET Given(split) == {[split[i] EXCEPT !.total_shares = 2] : i \in 1..3}
    IN  Given(SplitSecret(<<65>>, 2, 3, <<83, 0, 202>>).val)

\* What the sources hold: the payloads of the shares, the second share
\* without its outer envelope, and the payload of an encrypted secret.
SourceTexts ==
    {GenerateShamirQr(share) : share \in GivenShares}
    \cup {ShamirShareToJson(share) : share \in {g \in GivenShares : g.share_id = 2}}
    \cup {GenerateEncryptedQr(HeldEncrypted)}

\* The sources of a run: up to two texts in any order, and the sets in which
\* the first text is given again, once or more, before another.
SourceSets ==
    SeqsUpTo(SourceTexts, 2)
    \cup {[i \in 1..n |-> IF i < n THEN a ELSE b] :
            <<n, a, b>> \in (3..MaxSources) \X SourceTexts \X SourceTexts}

ReconstructInvocations ==
    {[shares |-> [i \in 1..Len(T) |-> [exists |-> TRUE, content |-> T[i] \o <<10>>]],
      data |-> <<>>, scan_qr |-> FALSE, max_scans |-> None, scans |-> <<>>] :
        T \in SourceSets \ {<<>>}}
    \cup {[shares |-> <<[exists |-> FALSE]>>, data |-> <<>>, scan_qr |-> FALSE,
           max_scans |-> None, scans |-> <<>>]}
    \cup {[shares |-> <<>>, data |-> T, scan_qr |-> FALSE, max_scans |-> None,
           scans |-> <<>>] : T \in SourceSets}
    \cup {[shares |-> <<>>, data |-> <<>>, scan_qr |-> TRUE, max_scans |-> m,
           scans |-> [i \in 1..Len(T) |-> ParseQrData(T[i])]] :
            T \in SourceSets, m \in {None, Some(2)}}

ReconstructInit ==
    /\ artifact = None
    /\ provenance = None
    /\ call = NoCall
    /\ result = None

DoHandleReconstruct ==
    /\ call = NoCall
    /\ \E inv \in ReconstructInvocations, output \in Outputs :
        /\ artifact' = [kind |-> "Invocation", shares |-> inv.shares,
                        data |-> inv.data, scan_qr |-> inv.scan_qr,
                        max_scans |-> inv.max_scans, scans |-> inv.scans,
                        output |-> output]
        /\ call' = [op |-> "handle_reconstruct"]
        /\ result' = HandleReconstruct(inv.shares, inv.data, inv.scan_qr,
                                       inv.max_scans, output, inv.scans)
    /\ UNCHANGED provenance

ReconstructNext == DoHandleReconstruct

ReconstructSpec == ReconstructInit /\ [][ReconstructNext]_vars

(***************************************************************************)
(* Properties of the reconstruct command, checked under ReconstructSpec.   *)
(***************************************************************************)
\* What the sources of the run hold, read as shares, whatever their kind.
SharesGiven ==
    IF artifact.scan_qr
    THEN [i \in 1..Len(artifact.scans) |->
            IF artifact.scans[i].ok THEN ParseShamirShare(artifact.scans[i].val)
            ELSE artifact.scans[i]]
    ELSE IF artifact.shares # <<>>
    THEN [i \in 1..Len(artifact.shares) |->
            IF artifact.shares[i].exists
            THEN LoadShare(Trim(artifact.shares[i].content), "")
            ELSE ReadFileContent(artifact.shares[i])]
    ELSE [i \in 1..Len(artifact.data) |-> LoadShare(artifact.data[i], "")]

\* The input holds shares only, all of them with an id within the total they
\* give, and two of them with the same share_id.
RepeatedShareGiven(given) ==
    /\ \A i \in 1..Len(given) : given[i].ok /\ ~InvalidShareId(given[i].val)
    /\ \E i, j \in 1..Len(given) :
            i # j /\ given[i].val.share_id = given[j].val.share_id

\* C21: on the reconstruct path, for every kind of source (share files, data
\* strings, scanned codes), an input that holds two shares with the same
\* share_id is deduplicated on share_id: the repeated share is dropped and
\* reconstruction proceeds with the remaining distinct shares.
C21_RepeatedShareDropped ==
    LET Dropped(given) ==
            RepeatedShareGiven(given)
            => /\ result.share_data # None
               /\ IsInjective([i \in 1..Len(result.share_data.val) |->
                                  result.share_data.val[i].share_id])
               /\ result.reconstructed # None
               /\ Len(result.share_data.val) >= 2 => result.reconstructed.val.ok
    IN
    call.op = "handle_reconstruct" => Dropped(SharesGiven)

\* The same for scanned codes, the one kind of source that drops them.
RepeatedScanDropped ==
    (call.op = "handle_reconstruct" /\ artifact.scan_qr)
    => C21_RepeatedShareDropped

\* C26: in handle_reconstruct, validate_shares runs on the loaded share set
\* before reconstruct_secret: when validation fails, reconstruct_secret is
\* never called and no secret is printed or written to the output file.
C26_ValidatedBeforeReconstructed ==
    LET Guarded(valid) ==
            /\ ~valid.ok
                => /\ result.reconstructed = None
                   /\ result.output = None
                   /\ ~result.ok
                   /\ result.kind = valid.kind /\ result.msg = valid.msg
            /\ valid.ok => result.reconstructed # None
    IN
    (call.op = "handle_reconstruct" /\ result.share_data # None)
    => Guarded(ValidateShares(result.share_data.val))

\* The first and the third share were given: the third has an id above the
\* total, which validate_shares refuses and reconstruct_secret would not.
C26_Witness ==
    /\ call.op = "handle_reconstruct"
    /\ result.share_data # None
    /\ Len(result.share_data.val) = 2
    /\ result.share_data.val[2].share_id = 3
    /\ ReconstructSecret(result.share_data.val) = Ok(<<65>>)
    /\ ~result.ok /\ result.msg = "Invalid share ID"
    /\ result.reconstructed = None /\ result.output = None

====
